---- MODULE Spec2Model ----
(***************************************************************************)
(* Guardian orchestration coordinator: the fan-out of one analysis request *)
(* to the correlation and the sector analyzer, the join of their responses *)
(* under a timeout, synthesis, and the emission of the combined report.    *)
(*                                                                         *)
(* The repository holds two coordinators:                                  *)
(*   agents/guardian_agent_hosted.py  event driven: every analyzer         *)
(*       response handler stores its response and calls                    *)
(*       check_and_send_combined_response, guarded by the sent_<id> key;   *)
(*   agents/guardian_agent_local.py   one handler per request that sends   *)
(*       both requests and then polls storage for each response in turn.   *)
(* The variable `variant` says which of the two is deployed.               *)
(*                                                                         *)
(* Handlers are coroutines: a handler runs without interruption up to an   *)
(* `await` that really suspends (ctx.send, asyncio.sleep), so one action   *)
(* is one such segment.  Time is a discrete clock `now`; the polling       *)
(* interval of wait_for_response (0.1 s) is below the resolution of the    *)
(* clock, so a poll that would make progress runs before the clock moves.  *)
(***************************************************************************)
EXTENDS Integers, Sequences, FiniteSets, TLC

(***************************************************************************)
(* Bounds of the model                                                     *)
(***************************************************************************)
\* per-agent timeout in clock ticks (AGENT_RESPONSE_TIMEOUT, an environment
\* setting whose default is 10 seconds)
AGENT_RESPONSE_TIMEOUT == 2

\* a request arrives no later than this clock value
LatestStart == 1
\* the clock stops here: after the joint ceiling of every request, with room
\* for a response that arrives later still
MaxTime == LatestStart + 2 * AGENT_RESPONSE_TIMEOUT + 2

\* One analysis request in flight (request ids are uuid4 values in the hosted
\* coordinator and are taken from the caller in the local one; no id is used
\* twice here), in one chat session.
Requests == {1}
Sessions == {1}

\* storage.get of a key that was never set
None == "none"
\* analysis_data of a response: well formed, or invalid so that
\* synthesis_analysis raises on it
PayloadKinds == {"ok", "invalid"}
\* addresses: the agent a direct AnalysisRequest comes from, and the user of
\* a chat session
PeerAgent == "peer"
ChatUser == "user"

VARIABLES
    variant,        \* "hosted" | "local": which coordinator is deployed
    now,            \* the clock, time.time()
    reqFlow,        \* r -> "none" | "chat" | "direct" | "local": how r arrived
    reqSession,     \* r -> ctx.session of the messages of request r (0: none yet)
    hpc,            \* r -> position of the hosted coordinator for request r
    corrStore,      \* storage correlation_<id> / correlationagent_<id>
    sectStore,      \* storage sector_<id> / sectoragent_<id>
    sent,           \* storage sent_<id> (hosted)
    startTime,      \* storage request_<id>_start_time (hosted), start_time (local); -1: unset
    userMessage,    \* storage request_<id>_user_message (hosted)
    sessionSender,  \* storage str(ctx.session) (hosted): s -> address, or None
    conv,           \* storage conversation_<session> (hosted)
    pending,        \* hosted handlers suspended in `await ctx.send(session_sender, ...)`
    lpc,            \* r -> position of the local handle_analysis_request for r
    waitStart,      \* r -> start_time of the running wait_for_response (local)
    lCorr,          \* r -> local variable correlation_response
    lSect,          \* r -> local variable sector_response
    outbox,         \* r -> messages sent back to the requester, in order
    synthLog,       \* r -> outcome of each call of synthesis_analysis, in order
    trace,          \* r -> coordinator states entered, in order
    arrivals,       \* r -> <<role, timing>> of the first response stored per role, in order
    waits,          \* r -> <<role, duration>> of each finished wait_for_response
    storedAfterReport, \* r -> a response was stored after the report was sent
    analyzerErrors, \* r -> per analyzer, the error_type of the ErrorMessage it sent (or None)
    synthPc,        \* "idle" | "ready" | "done": a call of synthesis_analysis
    corrAnalysis,   \* its correlation analysis_data
    sectAnalysis,   \* its sector analysis_data
    synthResult,    \* the GuardianSynthesis it returned
    crashQuery,     \* what its query of the historical crashes does
    synthNarrative, \* the historical example in its synthesis_narrative
    anPc,           \* "idle" | "ready" | "done": an AnalysisRequest at the correlation analyzer
    anPortfolio,    \* the tokens of its portfolio
    anTotalValue,   \* the total_value_usd of its portfolio
    anPriceData,    \* the price file of every token symbol
    anAligned,      \* the price files cover the same days
    anOutcome,      \* what the analyzer sent back
    sePc,           \* "idle" | "ready" | "done": an AnalysisRequest at the sector analyzer
    seDeployment,   \* "local" | "hosted": which sector analyzer got it
    sePortfolioData,\* its portfolio_data: tokens and stated total, in cents
    seMappings,     \* the sector mappings can be loaded
    seOutcome,      \* what the sector analyzer sent back
    seCrashes,      \* the state of the historical crash data
    seRisks,        \* the sector_risks of the analysis it sent back
    cvStorage,      \* storage conversation_<session>: the dict stored, or None
    cvDicts,        \* the conversation state dicts, by creating session and rank
    cvAppended,     \* per dict, every exchange ever appended to it, in order
    cvCreated,      \* s -> how many dicts init_conversation_state made for s
    cvAsked,        \* s -> how many user messages s has sent
    cvInFlight,     \* s -> the user message whose analysis is running (0: none)
    cvSuspended,    \* s -> the chat handler of s suspended in `await ctx.send`
    cvEnded,        \* s -> how many EndSessionContent of s were processed
    cvTornDown,     \* s -> how many dicts of s existed at its last session end
    cvAnalysed,     \* s -> how many wallets s has asked to analyse
    cvStale,        \* s -> a follow-up was answered from analyses stored before the end
    drPc,           \* "idle" | "ready" | "done": a call of calculate_daily_returns
    drPrices,       \* its price series
    drOutcome,      \* what it returned or raised
    dvPc,           \* position of the handling of each request of the delivery
    dvIssuer,       \* the sender that issued each request
    dvFlow,         \* how each request arrived: chat, direct or local
    dvSessionSender,\* storage key str(ctx.session): the chat sender of a session
    dvDirectSender, \* storage key request_<id>_direct_sender
    dvDelivered,    \* the recipients of the answers sent for each request
    rsPc,           \* position of the handling of each request
    rsId,           \* the request id of each request
    rsStorage,      \* storage keys <agent>_<request_id>: the request whose answer is stored
    rsSent,         \* storage keys sent_<request_id>
    rsInFlight,     \* analyzer responses on their way to the coordinator
    rsCorrelation,  \* local: what the wait for the correlation analyzer returned
    rsReport,       \* the analyses in the report of each request
    stState,        \* the conversation state of the session
    stStarted,      \* how many analysis requests the session has started
    stInFlight,     \* the request dispatched and not yet reported, 0 if none
    stReported,     \* the request reported last, 0 if none
    stEnded         \* the session has sent EndSessionContent

coordVars == <<variant, now, reqFlow, reqSession, hpc, corrStore, sectStore, sent,
          startTime, userMessage, sessionSender, conv, pending, lpc, waitStart,
          lCorr, lSect, outbox, synthLog, trace,
          arrivals, waits, storedAfterReport, analyzerErrors>>

\* the variables of the analysis engine, which the message handlers of the
\* coordinator leave alone
synthVars == <<synthPc, corrAnalysis, sectAnalysis, synthResult, crashQuery, synthNarrative>>

analyzerVars == <<anPc, anPortfolio, anTotalValue, anPriceData, anAligned, anOutcome>>

sectorVars == <<sePc, seDeployment, sePortfolioData, seMappings, seOutcome, seCrashes, seRisks>>

convVars == <<cvStorage, cvDicts, cvAppended, cvCreated, cvAsked, cvInFlight, cvSuspended,
              cvEnded, cvTornDown, cvAnalysed, cvStale>>

returnsVars == <<drPc, drPrices, drOutcome>>

deliveryVars == <<dvPc, dvIssuer, dvFlow, dvSessionSender, dvDirectSender, dvDelivered>>

responsesVars == <<rsPc, rsId, rsStorage, rsSent, rsInFlight, rsCorrelation, rsReport>>

sessionStateVars == <<stState, stStarted, stInFlight, stReported, stEnded>>

engineVars == <<synthVars, analyzerVars, sectorVars, convVars, returnsVars, deliveryVars, responsesVars, sessionStateVars>>

vars == <<coordVars, engineVars>>

hostedVars == <<hpc, sent, userMessage, sessionSender, conv, pending>>
localVars == <<lpc, waitStart, lCorr, lSect, waits>>

(***************************************************************************)
(* Messages sent back to the requester                                     *)
(***************************************************************************)
\* the combined report: the sections format_combined_response wrote, and the
\* elapsed time it reports
ReportMessage(to, text, elapsed) ==
    [kind |-> "report", to |-> to, corr |-> text.corr, sect |-> text.sect,
     synth |-> text.synth, elapsed |-> elapsed, error_type |-> "n/a"]

\* an ErrorMessage (local) or an error ChatMessage (hosted)
ErrorMessage(to, error_type) ==
    [kind |-> "error", to |-> to, corr |-> "n/a", sect |-> "n/a",
     synth |-> "n/a", elapsed |-> 0, error_type |-> error_type]

IsReport(m) == m.kind = "report"

\* the combined reports sent for request r
Reports(r) == SelectSeq(outbox[r], IsReport)

(***************************************************************************)
(* Pure parts of the coordinator                                           *)
(***************************************************************************)
\* the guard of the synthesis block weakened to "some response is present"
synthesis_attempted_on_any(c, s) == c # None \/ s # None

\* the guard of the synthesis block dropped
synthesis_attempted_always(c, s) == TRUE

\* the guarded synthesis block: synthesis_analysis is called iff both
\* responses are present
synthesis_attempted(c, s) == c # None /\ s # None

\* synthesis_analysis raises on analysis data it cannot read
synthesis_raises(c, s) == c = "invalid" \/ s = "invalid"

\* what the guarded block does: nothing, a call that returns, a call that raises
synthesis_outcome(c, s) ==
    IF ~synthesis_attempted(c, s) THEN <<>>
    ELSE IF synthesis_raises(c, s) THEN <<"raised">> ELSE <<"verdict">>

\* the value of `synthesis` after the try/except around synthesis_analysis
run_synthesis(c, s) ==
    IF synthesis_attempted(c, s) /\ ~synthesis_raises(c, s) THEN "verdict" ELSE None

\* an absent analysis labelled without the explanation
analysis_section_bare(response) ==
    IF response # None THEN "verbatim" ELSE "unavailable"

\* the section format_combined_response writes for one analyzer
analysis_section(response) ==
    IF response # None THEN "verbatim" ELSE "timeout_notice"

\* the synthesis section format_combined_response writes
synthesis_section(c, s, synthesis) ==
    IF synthesis # None THEN "verdict"
    ELSE IF c # None /\ s # None THEN "unavailable_notice"
    ELSE "omitted"

format_combined_response(c, s, synthesis) ==
    [corr |-> analysis_section(c), sect |-> analysis_section(s),
     synth |-> synthesis_section(c, s, synthesis)]

(***************************************************************************)
(* Conversation state (hosted); an analysis is recorded by the id of the   *)
(* request that produced it, 0 for None                                    *)
(***************************************************************************)
MAX_HISTORY == 10

NoConversation ==
    [present |-> FALSE, wallet |-> 0, correlation_analysis |-> 0,
     sector_analysis |-> 0, synthesis |-> 0, conversation_history |-> <<>>]

init_conversation_state(r) ==
    [present |-> TRUE, wallet |-> r, correlation_analysis |-> 0,
     sector_analysis |-> 0, synthesis |-> 0, conversation_history |-> <<>>]

\* history = history[:10]: the oldest entries kept
prune_history_oldest(h) ==
    IF Len(h) > MAX_HISTORY THEN SubSeq(h, 1, MAX_HISTORY) ELSE h

\* history = history[-10:]
prune_history(h) ==
    IF Len(h) > MAX_HISTORY THEN SubSeq(h, Len(h) - MAX_HISTORY + 1, Len(h)) ELSE h

\* the analyses are assigned whether or not they are given
update_conversation_state_overwriting(state, exchange, c, s, syn) ==
    [state EXCEPT
        !.correlation_analysis = c,
        !.sector_analysis = s,
        !.synthesis = syn,
        !.conversation_history = prune_history(Append(@, exchange))]

update_conversation_state(state, exchange, c, s, syn) ==
    [state EXCEPT
        !.correlation_analysis = IF c # 0 THEN c ELSE @,
        !.sector_analysis = IF s # 0 THEN s ELSE @,
        !.synthesis = IF syn # 0 THEN syn ELSE @,
        !.conversation_history = prune_history(Append(@, exchange))]

(***************************************************************************)
(* Synthesis: compounding risk, risk tier and recommendations              *)
(* (detect_compounding_risk, calculate_risk_level, generate_recommendations *)
(* and synthesis_analysis; the hosted coordinator holds the same functions  *)
(* over dicts)                                                              *)
(***************************************************************************)
\* the sector analyzer lists a sector as concentrated above this share
CONCENTRATION_THRESHOLD == 60

\* the sectors of a breakdown, in the order the dict iterates
SectorOrder == <<"DeFi Governance", "Layer-1">>
SectorNames == {SectorOrder[i] : i \in 1..Len(SectorOrder)}

\* shares of the portfolio value, in percent, around the thresholds 40 and 60
SectorShares == {0, 40, 41, 60, 61, 100}

SectorBreakdowns ==
    {b \in [SectorNames -> SectorShares] : b[SectorOrder[1]] + b[SectorOrder[2]] <= 100}

\* the sectors of the breakdown whose share exceeds the threshold
sectors_above(sector_breakdown, threshold) ==
    SelectSeq(SectorOrder, LAMBDA name : sector_breakdown[name] > threshold)

identify_concentrated_sectors(sector_breakdown) ==
    sectors_above(sector_breakdown, CONCENTRATION_THRESHOLD)

\* the analysis_data the analyzers send: SectorAnalysis as the sector analyzer
\* builds it, CorrelationAnalysis with its percentage in 0..100
SectorAnalyses ==
    {[sector_breakdown |-> b, concentrated_sectors |-> identify_concentrated_sectors(b)] :
        b \in SectorBreakdowns}

CorrelationAnalyses == {[correlation_percentage |-> p] : p \in 0..100}

\* the correlation test taken with >= for >
detect_compounding_risk_inclusive(correlation_analysis, sector_analysis) ==
    LET high_correlation == correlation_analysis.correlation_percentage >= 85
        high_concentration == Len(sector_analysis.concentrated_sectors) > 0
    IN  high_correlation /\ high_concentration

\* the correlation test taken as a band
detect_compounding_risk_band(correlation_analysis, sector_analysis) ==
    LET high_correlation == /\ correlation_analysis.correlation_percentage > 85
                            /\ correlation_analysis.correlation_percentage < 95
        high_concentration == Len(sector_analysis.concentrated_sectors) > 0
    IN  high_correlation /\ high_concentration

detect_compounding_risk(correlation_analysis, sector_analysis) ==
    LET high_correlation == correlation_analysis.correlation_percentage > 85
        high_concentration == Len(sector_analysis.concentrated_sectors) > 0
    IN  high_correlation /\ high_concentration

\* the moderate threshold taken with > for >=
calculate_risk_level_strict_moderate(correlation_percentage, concentrated_sectors) ==
    LET high_correlation == correlation_percentage > 85
        high_concentration == Len(concentrated_sectors) > 0
    IN  IF high_correlation /\ high_concentration THEN "Critical"
        ELSE IF high_correlation \/ high_concentration THEN "High"
        ELSE IF correlation_percentage > 70 \/ Len(concentrated_sectors) > 0 THEN "Moderate"
        ELSE "Low"

\* the tier computed from the correlation alone
calculate_risk_level_correlation_only(correlation_percentage, concentrated_sectors) ==
    IF correlation_percentage > 85 THEN "High"
    ELSE IF correlation_percentage >= 70 THEN "Moderate"
    ELSE "Low"

calculate_risk_level(correlation_percentage, concentrated_sectors) ==
    LET high_correlation == correlation_percentage > 85
        high_concentration == Len(concentrated_sectors) > 0
    IN  IF high_correlation /\ high_concentration THEN "Critical"
        ELSE IF high_correlation \/ high_concentration THEN "High"
        ELSE IF correlation_percentage >= 70 \/ Len(concentrated_sectors) > 0 THEN "Moderate"
        ELSE "Low"

\* a Recommendation: its priority, the helper that wrote it, and what its
\* action names
Recommendation(priority, kind, subject) ==
    [priority |-> priority, kind |-> kind, subject |-> subject]

get_correlation_recommendations(correlation_analysis, priority) ==
    Recommendation(priority, "correlation", "ETH correlation")

get_sector_recommendations(sector_analysis, priority) ==
    Recommendation(priority, "sector", sector_analysis.concentrated_sectors[1])

get_diversified_recommendations(correlation_analysis, sector_analysis) ==
    Recommendation(1, "diversified", "balanced structure")

\* the explanation given the top priority
get_prioritization_recommendation_first ==
    Recommendation(1, "prioritization", "sector diversification first")

get_prioritization_recommendation ==
    Recommendation(3, "prioritization", "sector diversification first")

\* list.sort(key=priority): stable, ascending
\* the sort taken descending
RECURSIVE insert_by_priority_descending(_, _)
insert_by_priority_descending(sorted, rec) ==
    IF sorted = <<>> THEN <<rec>>
    ELSE IF sorted[Len(sorted)].priority >= rec.priority THEN Append(sorted, rec)
    ELSE Append(insert_by_priority_descending(SubSeq(sorted, 1, Len(sorted) - 1), rec),
                sorted[Len(sorted)])

RECURSIVE insert_by_priority(_, _)
insert_by_priority(sorted, rec) ==
    IF sorted = <<>> THEN <<rec>>
    ELSE IF sorted[Len(sorted)].priority <= rec.priority THEN Append(sorted, rec)
    ELSE Append(insert_by_priority(SubSeq(sorted, 1, Len(sorted) - 1), rec),
                sorted[Len(sorted)])

RECURSIVE sort_by_priority(_)
sort_by_priority(recs) ==
    IF recs = <<>> THEN <<>>
    ELSE insert_by_priority(sort_by_priority(SubSeq(recs, 1, Len(recs) - 1)),
                            recs[Len(recs)])

\* the guard of the sector recommendation in the moderate scenario
moderate_sector_recommended(moderate_sectors, recommendations) ==
    moderate_sectors # <<>> /\ Len(recommendations) = 0

\* "Scenario 5: Moderate risk"
moderate_recommendations(correlation_analysis, sector_analysis) ==
    LET recommendations ==
            IF correlation_analysis.correlation_percentage >= 70
            THEN <<get_correlation_recommendations(correlation_analysis, 1)>>
            ELSE <<>>
        moderate_sectors == sectors_above(sector_analysis.sector_breakdown, 40)
        temp_sector_analysis ==
            [sector_analysis EXCEPT !.concentrated_sectors = moderate_sectors]
    IN  IF moderate_sector_recommended(moderate_sectors, recommendations)
        THEN Append(recommendations,
                    get_sector_recommendations(temp_sector_analysis,
                                               Len(recommendations) + 1))
        ELSE recommendations

generate_recommendations(correlation_analysis, sector_analysis, compounding_risk_detected, overall_risk_level) ==
    sort_by_priority(
        IF overall_risk_level = "Low" THEN
            <<get_diversified_recommendations(correlation_analysis, sector_analysis)>>
        ELSE IF compounding_risk_detected THEN
            <<get_sector_recommendations(sector_analysis, 1),
              get_correlation_recommendations(correlation_analysis, 2),
              get_prioritization_recommendation>>
        ELSE IF correlation_analysis.correlation_percentage > 85 THEN
            <<get_correlation_recommendations(correlation_analysis, 1)>>
        ELSE IF Len(sector_analysis.concentrated_sectors) > 0 THEN
            <<get_sector_recommendations(sector_analysis, 1)>>
        ELSE moderate_recommendations(correlation_analysis, sector_analysis))

\* the GuardianSynthesis synthesis_analysis returns
synthesis_analysis(correlation_analysis, sector_analysis) ==
    LET compounding_detected ==
            detect_compounding_risk(correlation_analysis, sector_analysis)
        overall_risk_level ==
            calculate_risk_level(correlation_analysis.correlation_percentage,
                                 sector_analysis.concentrated_sectors)
    IN  [compounding_risk_detected |-> compounding_detected,
         overall_risk_level |-> overall_risk_level,
         recommendations |-> generate_recommendations(
             correlation_analysis, sector_analysis,
             compounding_detected, overall_risk_level)]

NoSynthesis ==
    [compounding_risk_detected |-> FALSE, overall_risk_level |-> "none",
     recommendations |-> <<>>]

\* what query_crashes_by_correlation_loss can do: raise MeTTaQueryError,
\* find no crash, find a crash with a name or one without
CrashQueryOutcomes == {"raises", "empty", "named", "unnamed"}

query_crashes_by_correlation_loss(outcome) ==
    [raised |-> outcome = "raises",
     crashes |-> IF outcome \in {"raises", "empty"} THEN <<>>
                 ELSE <<[has_name |-> outcome = "named"]>>]

\* crash_data of synthesis_analysis: queried only when compounding risk is
\* detected, [] when the query raises
crash_data_of(compounding_detected, outcome) ==
    IF compounding_detected /\ ~query_crashes_by_correlation_loss(outcome).raised
        THEN query_crashes_by_correlation_loss(outcome).crashes
        ELSE <<>>

\* generate_synthesis_narrative: the historical crash example of the
\* narrative, left out when crash_data is empty
crash_example(crash_data) ==
    IF Len(crash_data) = 0 THEN "none"
    ELSE IF crash_data[1].has_name THEN "name of the crash"
    ELSE "2022 Bear Market"

\* the synthesis_narrative synthesis_analysis returns with its result
synthesis_narrative_of(correlation_analysis, sector_analysis, outcome) ==
    [returned |-> TRUE,
     crash_example |-> crash_example(crash_data_of(
         detect_compounding_risk(correlation_analysis, sector_analysis), outcome))]

NoNarrative == [returned |-> FALSE, crash_example |-> "none"]

\* no call of synthesis_analysis under way
SynthIdle ==
    /\ synthPc = "idle"
    /\ corrAnalysis = [correlation_percentage |-> 0]
    /\ sectAnalysis = [sector_breakdown |-> [name \in SectorNames |-> 0],
                       concentrated_sectors |-> <<>>]
    /\ synthResult = NoSynthesis
    /\ crashQuery = "empty"
    /\ synthNarrative = NoNarrative

\* synthesis_analysis is called with the two analyses
SynthInit ==
    /\ synthPc = "ready"
    /\ corrAnalysis \in CorrelationAnalyses
    /\ sectAnalysis \in SectorAnalyses
    /\ synthResult = NoSynthesis
    /\ crashQuery \in CrashQueryOutcomes
    /\ synthNarrative = NoNarrative

\* synthesis_analysis returns
call_synthesis_analysis ==
    /\ synthPc = "ready"
    /\ synthPc' = "done"
    /\ synthResult' = synthesis_analysis(corrAnalysis, sectAnalysis)
    /\ synthNarrative' = synthesis_narrative_of(corrAnalysis, sectAnalysis, crashQuery)
    /\ UNCHANGED <<coordVars, sessionStateVars, responsesVars, deliveryVars, returnsVars, analyzerVars, sectorVars, convVars, corrAnalysis,
                   sectAnalysis, crashQuery>>

(***************************************************************************)
(* Correlation analyzer: one AnalysisRequest handled by                    *)
(* handle_analysis_request of agents/correlation_agent_local.py            *)
(* (process_correlation_analysis in the hosted analyzer).  A price file is  *)
(* known by the number of rows load_price_data keeps of it and the number   *)
(* of daily returns calculate_daily_returns gets from them; a coefficient   *)
(* is counted in thousandths, 1000 for 1.0.                                 *)
(***************************************************************************)
MIN_REQUIRED_DATA_DAYS == 60

\* in percent: the code divides the configured percentage by 100
MAX_EXCLUDED_VALUE_RATIO == 50

Symbols == {"ETH", "UNI", "UNKNOWN"}

\* in cents, so the tolerance of Portfolio.validate_total_value is 1
TokenValues == {1, 10}

NoPriceFile == [exists |-> FALSE, rows |-> 0, returns |-> 0]

\* a file shorter than the window, one that fills it, and one that fills it
\* with so many empty prices that few returns are left
PriceFiles ==
    {NoPriceFile,
     [exists |-> TRUE, rows |-> 50, returns |-> 49],
     [exists |-> TRUE, rows |-> 80, returns |-> 79],
     [exists |-> TRUE, rows |-> 91, returns |-> 90],
     [exists |-> TRUE, rows |-> 91, returns |-> 50]}

TokenHoldings == [symbol : Symbols, value_usd : TokenValues]

\* one or two holdings of different tokens, in the order of the request
Portfolios ==
    {<<t>> : t \in TokenHoldings} \cup
    {p \in TokenHoldings \X TokenHoldings : p[1].symbol # p[2].symbol}

RECURSIVE sum_value_usd(_)
sum_value_usd(tokens) ==
    IF tokens = <<>> THEN 0
    ELSE Head(tokens).value_usd + sum_value_usd(Tail(tokens))

\* the totals Portfolio accepts for the tokens: total_value_usd > 0 and
\* abs(total_value_usd - calculated_total) > 0.01 does not hold
AcceptedTotals(tokens) ==
    {total \in {sum_value_usd(tokens) - 1, sum_value_usd(tokens), sum_value_usd(tokens) + 1} : total > 0}

\* what np.corrcoef can give for the aligned series: a coefficient, or NaN
Coefficients ==
    {-1000, -856, -855, -500, -4, 0, 4, 5, 6, 294, 500, 699, 700,
     850, 851, 855, 856, 859, 994, 995, 999, 1000}

NaN == [nan |-> TRUE, value |-> 0]

RawCoefficients == {[nan |-> FALSE, value |-> c] : c \in Coefficients} \cup {NaN}

Abs(x) == IF x < 0 THEN -x ELSE x

\* load_price_data: the data frame, FileNotFoundError or ValueError
load_price_data(file, days) ==
    IF ~file.exists
        THEN [raised |-> "FileNotFoundError", message |-> "Price data not found",
              returns |-> 0]
    ELSE IF file.rows < days
        THEN [raised |-> "ValueError", message |-> "Insufficient data for symbol",
              returns |-> 0]
    ELSE [raised |-> None, message |-> None, returns |-> file.returns]

\* the loop of calculate_portfolio_returns over portfolio.tokens: only
\* FileNotFoundError is caught, a ValueError of load_price_data leaves the
\* loop and the function
RECURSIVE load_token_returns(_, _, _, _)
load_token_returns(tokens, price_data, days, acc) ==
    IF tokens = <<>> THEN acc
    ELSE LET token == Head(tokens)
             df == load_price_data(price_data[token.symbol], days)
         IN  IF df.raised = "FileNotFoundError"
                 THEN load_token_returns(Tail(tokens), price_data, days,
                          [acc EXCEPT !.excluded_value = @ + token.value_usd])
             ELSE IF df.raised = "ValueError"
                 THEN [acc EXCEPT !.raised = df.message]
             ELSE IF df.returns < MIN_REQUIRED_DATA_DAYS
                 THEN load_token_returns(Tail(tokens), price_data, days,
                          [acc EXCEPT !.excluded_value = @ + token.value_usd])
             ELSE load_token_returns(Tail(tokens), price_data, days,
                          [acc EXCEPT !.token_returns = Append(@, df.returns)])

RECURSIVE shortest(_)
shortest(token_returns) ==
    IF Len(token_returns) = 1 THEN Head(token_returns)
    ELSE LET rest == shortest(Tail(token_returns))
         IN  IF Head(token_returns) < rest THEN Head(token_returns) ELSE rest

\* the intersection of the dates of the kept series: all of the shortest
\* series when the files cover the same days, nothing when two files cover
\* different days
all_dates(token_returns, aligned) ==
    IF Len(token_returns) = 1 \/ aligned THEN shortest(token_returns) ELSE 0

excluded_too_much(excluded_value, total_value) ==
    excluded_value * 100 > MAX_EXCLUDED_VALUE_RATIO * total_value

calculate_portfolio_returns(portfolio, price_data, aligned, days) ==
    LET loaded == load_token_returns(portfolio.tokens, price_data, days,
                      [raised |-> None, excluded_value |-> 0,
                       token_returns |-> <<>>])
    IN  IF loaded.raised # None THEN loaded.raised
        ELSE IF excluded_too_much(loaded.excluded_value, portfolio.total_value_usd)
            THEN "Insufficient data: tokens excluded"
        ELSE IF Len(loaded.token_returns) = 0
            THEN "No valid tokens with sufficient historical data"
        ELSE IF all_dates(loaded.token_returns, aligned) < MIN_REQUIRED_DATA_DAYS
            THEN "Insufficient overlapping data"
        ELSE None

\* load_eth_returns
load_eth_returns(price_data, days) == load_price_data(price_data["ETH"], days)

\* calculate_pearson_correlation: NaN is returned as 0.0
calculate_pearson_correlation(raw) == IF raw.nan THEN 0 ELSE raw.value

\* int(abs(correlation_coef) * 100)
correlation_pct(correlation_coef) == (Abs(correlation_coef) * 100) \div 1000

\* the thresholds of config.py, in percent: the code divides them by 100,
\* the coefficients here are in thousandths
HIGH_CORRELATION_THRESHOLD == 85

MODERATE_CORRELATION_THRESHOLD == 70

\* "High" if abs(correlation_coef) > HIGH_CORRELATION_THRESHOLD else
\* "Moderate" if abs(correlation_coef) >= MODERATE_CORRELATION_THRESHOLD else "Low"
interpretation(correlation_coef) ==
    IF Abs(correlation_coef) * 100 > HIGH_CORRELATION_THRESHOLD * 1000 THEN "High"
    ELSE IF Abs(correlation_coef) * 100 >= MODERATE_CORRELATION_THRESHOLD * 1000 THEN "Moderate"
    ELSE "Low"

\* the messages of the exceptions above that hold the word "insufficient"
InsufficientMessages ==
    {"Insufficient data for symbol", "Insufficient data: tokens excluded",
     "Insufficient overlapping data"}

\* "insufficient_data" if "insufficient" in str(e).lower() else "invalid_data"
error_type_of(message) ==
    IF message \in InsufficientMessages THEN "insufficient_data" ELSE "invalid_data"

AnalyzerError(message) ==
    [kind |-> "error", error_type |-> error_type_of(message), message |-> message,
     correlation_coefficient |-> 0, correlation_percentage |-> 0, interpretation |-> None]

\* the try block of the handler, and its except branch
process_correlation_analysis(portfolio, price_data, aligned, raw) ==
    LET portfolio_returns == calculate_portfolio_returns(portfolio, price_data, aligned, 90)
        eth_returns == load_eth_returns(price_data, 90)
        correlation_coef == calculate_pearson_correlation(raw)
    IN  IF portfolio_returns # None THEN AnalyzerError(portfolio_returns)
        ELSE IF eth_returns.raised # None THEN AnalyzerError(eth_returns.message)
        ELSE [kind |-> "analysis", error_type |-> None, message |-> None,
              correlation_coefficient |-> correlation_coef,
              correlation_percentage |-> correlation_pct(correlation_coef),
              interpretation |-> interpretation(correlation_coef)]

NoOutcome ==
    [kind |-> "none", error_type |-> None, message |-> None,
     correlation_coefficient |-> 0, correlation_percentage |-> 0, interpretation |-> None]

\* no AnalysisRequest at the analyzer
AnalyzerIdle ==
    /\ anPc = "idle"
    /\ anPortfolio = <<>>
    /\ anTotalValue = 0
    /\ anPriceData = [s \in Symbols |-> NoPriceFile]
    /\ anAligned = TRUE
    /\ anOutcome = NoOutcome

\* an AnalysisRequest with a valid portfolio has arrived
AnalyzerInit ==
    /\ anPc = "ready"
    /\ anPortfolio \in Portfolios
    /\ anTotalValue \in AcceptedTotals(anPortfolio)
    /\ anPriceData \in [Symbols -> PriceFiles]
    /\ anAligned \in BOOLEAN
    /\ anOutcome = NoOutcome

\* the analyzer answers: a CorrelationAnalysisResponse or an ErrorMessage
handle_correlation_analysis_request ==
    /\ anPc = "ready"
    /\ anPc' = "done"
    /\ \E raw \in RawCoefficients :
          anOutcome' = process_correlation_analysis(
                           [tokens |-> anPortfolio, total_value_usd |-> anTotalValue],
                           anPriceData, anAligned, raw)
    /\ UNCHANGED <<coordVars, sessionStateVars, responsesVars, deliveryVars, returnsVars, synthVars, sectorVars, convVars, anPortfolio, anTotalValue,
                   anPriceData, anAligned>>

(***************************************************************************)
(* Sector analyzer: one AnalysisRequest handled by handle_analysis_request *)
(* of agents/sector_agent_local.py, or by handle_direct_analysis_request   *)
(* and process_sector_analysis of agents/sector_agent_hosted.py.  Money is  *)
(* counted in cents, so the tolerance of 0.01 USD is 1.  A percentage is    *)
(* kept as the fraction num / den that the code divides out.                *)
(***************************************************************************)
\* the token-to-sector map (data/sector-mappings.json), for the tokens used
SectorMappings ==
    [UNI |-> "DeFi Governance", AAVE |-> "DeFi Governance",
     COMP |-> "DeFi Governance", MKR |-> "DeFi Governance",
     MATIC |-> "Layer-2"]

SectorSymbols == {"UNI", "AAVE", "MATIC", "UNKNOWN_TOKEN"}

SectorTokenCents == {1, 4000, 6000}

SectorTokens == [symbol : SectorSymbols, value_usd : SectorTokenCents]

\* one or two holdings of different tokens, and the portfolio of the tests
high_concentration_portfolio ==
    [tokens |-> <<[symbol |-> "UNI", value_usd |-> 3210000],
                  [symbol |-> "AAVE", value_usd |-> 2357500],
                  [symbol |-> "COMP", value_usd |-> 2376000],
                  [symbol |-> "MKR", value_usd |-> 1896600],
                  [symbol |-> "MATIC", value_usd |-> 936000]>>,
     total_value_usd |-> 10776100]

SectorTokenLists ==
    {<<t>> : t \in SectorTokens} \cup
    {p \in SectorTokens \X SectorTokens : p[1].symbol # p[2].symbol}

\* the total a request states: the sum of its holdings, one or two cents
\* off it, or another amount
StatedTotals(tokens) ==
    {sum_value_usd(tokens) + d : d \in {-1, 0, 1, 2}} \cup {8000}

PortfolioData ==
    UNION {{[tokens |-> tokens, total_value_usd |-> total] :
               total \in StatedTotals(tokens)} : tokens \in SectorTokenLists}
    \cup {high_concentration_portfolio}

\* Portfolio.validate_total_value of shared/models.py:
\* abs(total_value_usd - calculated_total) > 0.01 raises
validate_total_value(portfolio_data) ==
    Abs(portfolio_data.total_value_usd - sum_value_usd(portfolio_data.tokens)) <= 1

\* Portfolio(**msg.portfolio_data) with the models of shared/models.py:
\* at least one token, every value and the total above 0, the total checked
shared_portfolio_constructs(portfolio_data) ==
    /\ Len(portfolio_data.tokens) >= 1
    /\ \A i \in 1..Len(portfolio_data.tokens) : portfolio_data.tokens[i].value_usd > 0
    /\ portfolio_data.total_value_usd > 0
    /\ validate_total_value(portfolio_data)

sector_of_own_bucket(symbol, sector_map) ==
    IF symbol \in DOMAIN sector_map THEN sector_map[symbol] ELSE symbol

\* sector_map.loc[symbol, "sector"], or "Unknown Sector"
sector_of(symbol, sector_map) ==
    IF symbol \in DOMAIN sector_map THEN sector_map[symbol] ELSE "Unknown Sector"

\* sector_data[sector_name]["value_usd"] += value; token_symbols.append(symbol)
add_to_sector(sector_data, sector_name, token) ==
    IF \E i \in 1..Len(sector_data) : sector_data[i].sector_name = sector_name
        THEN [i \in 1..Len(sector_data) |->
                 IF sector_data[i].sector_name = sector_name
                     THEN [sector_data[i] EXCEPT
                              !.value_usd = @ + token.value_usd,
                              !.token_symbols = Append(@, token.symbol)]
                     ELSE sector_data[i]]
        ELSE Append(sector_data,
                    [sector_name |-> sector_name, value_usd |-> token.value_usd,
                     token_symbols |-> <<token.symbol>>])

RECURSIVE accumulate_sectors(_, _, _)
accumulate_sectors(tokens, sector_map, sector_data) ==
    IF tokens = <<>> THEN sector_data
    ELSE accumulate_sectors(Tail(tokens), sector_map,
             add_to_sector(sector_data, sector_of(Head(tokens).symbol, sector_map),
                           Head(tokens)))

\* classify_tokens / classify_tokens_pure_python: the sectors in the order
\* their first token comes, percentage = value_usd / total_value_usd * 100
classify_tokens_pure_python(portfolio_data, sector_map) ==
    LET sector_data == accumulate_sectors(portfolio_data.tokens, sector_map, <<>>)
    IN  [i \in 1..Len(sector_data) |->
            [sector_name |-> sector_data[i].sector_name,
             value_usd |-> sector_data[i].value_usd,
             token_symbols |-> sector_data[i].token_symbols,
             percentage |-> [num |-> sector_data[i].value_usd * 100,
                             den |-> portfolio_data.total_value_usd]]]

percentage_at_least(percentage, threshold) ==
    percentage.num >= threshold * percentage.den

\* data["percentage"] > threshold
percentage_above(percentage, threshold) ==
    percentage.num > threshold * percentage.den

sector_names(sector_breakdown) ==
    [i \in 1..Len(sector_breakdown) |-> sector_breakdown[i].sector_name]

identify_concentrated_sectors_pure_python(sector_breakdown, threshold) ==
    sector_names(SelectSeq(sector_breakdown,
                           LAMBDA data : percentage_above(data.percentage, threshold)))

calculate_diversification_score_by_presence(concentrated_sectors) ==
    LET num_concentrated == Len(concentrated_sectors)
    IN  IF num_concentrated = 0 THEN "Well-Diversified"
        ELSE "High Concentration"

calculate_diversification_score(concentrated_sectors) ==
    LET num_concentrated == Len(concentrated_sectors)
    IN  IF num_concentrated = 0 THEN "Well-Diversified"
        ELSE IF num_concentrated = 1 THEN "Moderate Concentration"
        ELSE "High Concentration"

SectorError(error_type) ==
    [kind |-> "error", error_type |-> error_type, sector_breakdown |-> <<>>,
     concentrated_sectors |-> <<>>, diversification_score |-> None]

sector_analysis_of(portfolio_data) ==
    LET sector_breakdown == classify_tokens_pure_python(portfolio_data, SectorMappings)
        concentrated_sectors ==
            identify_concentrated_sectors_pure_python(sector_breakdown,
                                                      CONCENTRATION_THRESHOLD)
    IN  [kind |-> "analysis", error_type |-> None,
         sector_breakdown |-> sector_breakdown,
         concentrated_sectors |-> concentrated_sectors,
         diversification_score |-> calculate_diversification_score(concentrated_sectors)]

\* sector_agent_local.py: the Portfolio is constructed (ValidationError is a
\* ValueError: invalid_data), then the map is loaded (FileNotFoundError:
\* insufficient_data)
handle_sector_request_local(portfolio_data, mappings_available) ==
    IF ~shared_portfolio_constructs(portfolio_data) THEN SectorError("invalid_data")
    ELSE IF ~mappings_available THEN SectorError("insufficient_data")
    ELSE sector_analysis_of(portfolio_data)

\* sector_agent_hosted.py: no Portfolio is constructed; the map is loaded
\* (an error that names the "mappings": insufficient_data), then the dict
\* is classified (division by a total of 0: invalid_data)
process_sector_analysis(portfolio_data, mappings_available) ==
    IF ~mappings_available THEN SectorError("insufficient_data")
    ELSE IF portfolio_data.total_value_usd = 0 THEN SectorError("invalid_data")
    ELSE sector_analysis_of(portfolio_data)

\* the historical crash data (data/historical-crashes.json): no file, a file
\* that is not the expected JSON, a file with an empty list of crashes, one
\* without the default crash scenario, a scenario without an entry for the
\* concentrated sector, one without a sector to name as missed opportunity,
\* and the complete data
HistoricalCrashes ==
    {"absent", "malformed", "no_crashes", "no_scenario", "no_sector", "no_opportunity",
     "complete"}

\* load_historical_crashes, and the selection of the crash scenario that
\* both readers of the data start with: on a data frame made of an empty list
\* the column scenario_id does not exist and the selection raises KeyError
find_crash_scenario(crashes) ==
    IF crashes = "absent" THEN "FileNotFoundError"
    ELSE IF crashes = "malformed" THEN "ValueError"
    ELSE IF crashes = "no_crashes" THEN "KeyError"
    ELSE IF crashes = "no_scenario" THEN "ValueError"
    ELSE None

\* get_opportunity_cost: the best missed opportunity, [] without the file
get_opportunity_cost(concentrated_sectors, crashes) ==
    IF crashes = "absent" THEN [raised |-> None, costs |-> 0]
    ELSE IF find_crash_scenario(crashes) # None
        THEN [raised |-> find_crash_scenario(crashes), costs |-> 0]
    ELSE [raised |-> None, costs |-> IF crashes = "no_opportunity" THEN 0 ELSE 1]

\* get_sector_crash_performance
get_sector_crash_performance(sector_name, crashes) ==
    IF find_crash_scenario(crashes) # None THEN find_crash_scenario(crashes)
    ELSE IF crashes = "no_sector" THEN "ValueError"
    ELSE None

\* the sector_risks of handle_analysis_request: one risk, for the first
\* concentrated sector; ValueError and FileNotFoundError give [], any other
\* exception leaves the try block
build_sector_risks(concentrated_sectors, crashes) ==
    IF Len(concentrated_sectors) = 0 THEN [raised |-> None, sector_risks |-> <<>>]
    ELSE LET opportunity_costs == get_opportunity_cost(concentrated_sectors, crashes)
             crash_perf == get_sector_crash_performance(concentrated_sectors[1], crashes)
             exception == IF opportunity_costs.raised # None THEN opportunity_costs.raised
                          ELSE crash_perf
         IN  IF exception \in {"ValueError", "FileNotFoundError"}
                 THEN [raised |-> None, sector_risks |-> <<>>]
             ELSE IF exception # None
                 THEN [raised |-> exception, sector_risks |-> <<>>]
             ELSE IF opportunity_costs.costs > 0
                 THEN [raised |-> None, sector_risks |-> <<concentrated_sectors[1]>>]
             ELSE [raised |-> None, sector_risks |-> <<>>]

\* the sector_risks of process_sector_analysis (hosted): the crash list is
\* searched in plain Python and every exception gives []
build_sector_risks_pure_python(concentrated_sectors, crashes) ==
    IF Len(concentrated_sectors) > 0 /\ crashes = "complete"
        THEN [raised |-> None, sector_risks |-> <<concentrated_sectors[1]>>]
        ELSE [raised |-> None, sector_risks |-> <<>>]

NoSectorOutcome ==
    [kind |-> "none", error_type |-> None, sector_breakdown |-> <<>>,
     concentrated_sectors |-> <<>>, diversification_score |-> None]

\* no AnalysisRequest at the sector analyzer
SectorIdle ==
    /\ sePc = "idle"
    /\ seDeployment = "local"
    /\ sePortfolioData = [tokens |-> <<>>, total_value_usd |-> 0]
    /\ seMappings = TRUE
    /\ seOutcome = NoSectorOutcome
    /\ seCrashes = "complete"
    /\ seRisks = <<>>

\* an AnalysisRequest has arrived at the local or the hosted sector analyzer
SectorInit ==
    /\ sePc = "ready"
    /\ seDeployment \in {"local", "hosted"}
    /\ sePortfolioData \in PortfolioData
    /\ seMappings \in BOOLEAN
    /\ seOutcome = NoSectorOutcome
    /\ seCrashes \in HistoricalCrashes
    /\ seRisks = <<>>

\* the analyzer answers: a SectorAnalysisResponse or an ErrorMessage
handle_sector_analysis_request ==
    /\ sePc = "ready"
    /\ sePc' = "done"
    /\ LET answer == IF seDeployment = "local"
                         THEN handle_sector_request_local(sePortfolioData, seMappings)
                         ELSE process_sector_analysis(sePortfolioData, seMappings)
           risks == IF seDeployment = "local"
                        THEN build_sector_risks(answer.concentrated_sectors, seCrashes)
                        ELSE build_sector_risks_pure_python(answer.concentrated_sectors, seCrashes)
       IN  IF answer.kind = "analysis" /\ risks.raised # None
               THEN /\ seOutcome' = SectorError("agent_unavailable")
                    /\ seRisks' = <<>>
               ELSE /\ seOutcome' = answer
                    /\ seRisks' = IF answer.kind = "analysis" THEN risks.sector_risks ELSE <<>>
    /\ UNCHANGED <<coordVars, sessionStateVars, responsesVars, deliveryVars, returnsVars, synthVars, analyzerVars, convVars, seDeployment,
                   sePortfolioData, seMappings, seCrashes>>

(***************************************************************************)
(* Conversation store (hosted coordinator): the state dicts kept under     *)
(* conversation_<session>.  The store hands out the dict itself, so a      *)
(* handler that read the state before an `await` holds the same dict when  *)
(* it is resumed.  A dict is named by the session that created it (its     *)
(* session_id field) and its rank among the dicts of that session.         *)
(***************************************************************************)
ChatSessions == {1, 2}

Generations == {1, 2}

\* how many user messages each session sends
ExchangeBudget == [s \in ChatSessions |-> IF s = 1 THEN 11 ELSE 1]

\* how many of them name a wallet to analyse
AnalysisBudget == [s \in ChatSessions |-> IF s = 1 THEN 2 ELSE 1]

\* how many EndSessionContent each session sends
EndBudget == [s \in ChatSessions |-> IF s = 1 THEN 1 ELSE 0]

NoRef == [session |-> 0, gen |-> 0]

NoHandler == [active |-> FALSE, kind |-> "none", state |-> NoRef, exchange |-> 0]

\* session_key = f"conversation_{ctx.session}", every session under one key
session_key_shared(session) == 1

\* session_key = f"conversation_{ctx.session}"
session_key(session) == session

\* ctx.storage.get(session_key)
get_conversation_state(session) == cvStorage[session_key(session)]

\* the dict a reference names
deref(ref) == cvDicts[ref.session][ref.gen]

\* the dict named by ref replaced by d
with_dict(ref, d) == [cvDicts EXCEPT ![ref.session][ref.gen] = d]

\* classify_followup_question finds an analysis to answer from
followup_answerable(ref) ==
    /\ ref # NoRef
    /\ deref(ref).correlation_analysis # 0

\* no session has a state, no handler is suspended
ConversationInit ==
    /\ cvStorage = [k \in ChatSessions |-> NoRef]
    /\ cvDicts = [s \in ChatSessions |-> [g \in Generations |-> NoConversation]]
    /\ cvAppended = [s \in ChatSessions |-> [g \in Generations |-> <<>>]]
    /\ cvCreated = [s \in ChatSessions |-> 0]
    /\ cvAsked = [s \in ChatSessions |-> 0]
    /\ cvInFlight = [s \in ChatSessions |-> 0]
    /\ cvSuspended = [s \in ChatSessions |-> NoHandler]
    /\ cvEnded = [s \in ChatSessions |-> 0]
    /\ cvTornDown = [s \in ChatSessions |-> 0]
    /\ cvStale = [s \in ChatSessions |-> FALSE]
    /\ cvAnalysed = [s \in ChatSessions |-> 0]

\* handle_structured_output: a wallet to analyse; the state is created when
\* the session has none, else its wallet is replaced
\* (one analysis in flight per session at a time)
start_wallet_analysis(s) ==
    /\ cvInFlight[s] = 0
    /\ cvAsked[s] < ExchangeBudget[s]
    /\ cvAnalysed[s] < AnalysisBudget[s]
    /\ cvAnalysed' = [cvAnalysed EXCEPT ![s] = @ + 1]
    /\ LET state == get_conversation_state(s)
           fresh == [session |-> s, gen |-> cvCreated[s] + 1]
       IN  IF state = NoRef
           THEN /\ cvCreated[s] + 1 \in Generations
                /\ cvDicts' = with_dict(fresh, init_conversation_state(s))
                /\ cvStorage' = [cvStorage EXCEPT ![session_key(s)] = fresh]
                /\ cvCreated' = [cvCreated EXCEPT ![s] = @ + 1]
           ELSE /\ cvDicts' = with_dict(state, [deref(state) EXCEPT !.wallet = s])
                /\ cvStorage' = [cvStorage EXCEPT ![session_key(s)] = state]
                /\ UNCHANGED cvCreated
    /\ cvAsked' = [cvAsked EXCEPT ![s] = @ + 1]
    /\ cvInFlight' = [cvInFlight EXCEPT ![s] = cvAsked[s] + 1]
    /\ UNCHANGED <<coordVars, sessionStateVars, responsesVars, deliveryVars, returnsVars, synthVars, analyzerVars, sectorVars, cvAppended, cvSuspended,
                   cvEnded, cvTornDown, cvStale>>

\* check_and_send_combined_response, after the report was sent: the analyses
\* and the exchange go into the state the session has now, if it has one
record_report(s) ==
    /\ cvInFlight[s] # 0
    /\ LET state == get_conversation_state(s)
           analysis == cvEnded[s] + 1
       IN  IF state = NoRef
           THEN UNCHANGED <<cvDicts, cvStorage, cvAppended>>
           ELSE /\ cvDicts' = with_dict(state,
                        update_conversation_state(deref(state), cvInFlight[s], analysis, analysis, analysis))
                /\ cvStorage' = [cvStorage EXCEPT ![session_key(s)] = state]
                /\ cvAppended' = [cvAppended EXCEPT ![state.session][state.gen] = Append(@, cvInFlight[s])]
    /\ cvInFlight' = [cvInFlight EXCEPT ![s] = 0]
    /\ UNCHANGED <<coordVars, sessionStateVars, responsesVars, deliveryVars, returnsVars, synthVars, analyzerVars, sectorVars, cvCreated, cvAsked,
                   cvSuspended, cvEnded, cvTornDown, cvAnalysed, cvStale>>

\* handle_chat_message, TextContent: the state is read, the question is
\* answered (a clarification, or a follow-up from the stored analyses) and
\* the handler is suspended in `await ctx.send`
\* (one suspended chat handler per session at a time)
ask_question(s, kind) ==
    /\ ~cvSuspended[s].active
    /\ cvAsked[s] < ExchangeBudget[s]
    /\ LET conversation_state == get_conversation_state(s)
       IN  /\ kind = "followup" => followup_answerable(conversation_state)
           /\ cvSuspended' = [cvSuspended EXCEPT ![s] =
                    [active |-> TRUE, kind |-> kind, state |-> conversation_state,
                     exchange |-> cvAsked[s] + 1]]
           /\ cvStale' = [cvStale EXCEPT ![s] =
                    @ \/ (/\ kind = "followup"
                          /\ deref(conversation_state).correlation_analysis <= cvEnded[s])]
    /\ cvAsked' = [cvAsked EXCEPT ![s] = @ + 1]
    /\ UNCHANGED <<coordVars, sessionStateVars, responsesVars, deliveryVars, returnsVars, synthVars, analyzerVars, sectorVars, cvStorage, cvDicts,
                   cvAppended, cvCreated, cvInFlight, cvEnded, cvTornDown, cvAnalysed>>

\* the same handler resumed: the exchange is appended to the state it read
\* before the await, and that state is stored under the key of its session
resume_question(s) ==
    /\ cvSuspended[s].active
    /\ LET h == cvSuspended[s]
       IN  IF h.state = NoRef
           THEN UNCHANGED <<cvDicts, cvStorage, cvAppended>>
           ELSE /\ cvDicts' = with_dict(h.state,
                        update_conversation_state(deref(h.state), h.exchange, 0, 0, 0))
                /\ cvStorage' = [cvStorage EXCEPT ![session_key(s)] = h.state]
                /\ cvAppended' = [cvAppended EXCEPT ![h.state.session][h.state.gen] = Append(@, h.exchange)]
    /\ cvSuspended' = [cvSuspended EXCEPT ![s] = NoHandler]
    /\ UNCHANGED <<coordVars, sessionStateVars, responsesVars, deliveryVars, returnsVars, synthVars, analyzerVars, sectorVars, cvCreated, cvAsked,
                   cvInFlight, cvEnded, cvTornDown, cvAnalysed, cvStale>>

\* handle_chat_message, EndSessionContent: the key of the session is set to None
end_session(s) ==
    /\ cvEnded[s] < EndBudget[s]
    /\ cvStorage' = [cvStorage EXCEPT ![session_key(s)] = NoRef]
    /\ cvEnded' = [cvEnded EXCEPT ![s] = @ + 1]
    /\ cvTornDown' = [cvTornDown EXCEPT ![s] = cvCreated[s]]
    /\ UNCHANGED <<coordVars, sessionStateVars, responsesVars, deliveryVars, returnsVars, synthVars, analyzerVars, sectorVars, cvDicts, cvAppended,
                   cvCreated, cvAsked, cvInFlight, cvSuspended, cvAnalysed, cvStale>>

(***************************************************************************)
(* Daily returns: calculate_daily_returns of the correlation analyzers, on *)
(* a price series of any length.  A return is kept as the fraction         *)
(* (price - previous price) / previous price.                              *)
(***************************************************************************)
Prices == {100, 105, 110}

\* price series of 0 to 4 days
PriceSeries == UNION {[1..n -> Prices] : n \in 0..4}

\* prices.pct_change().dropna() (local), the loop over range(1, len(prices))
\* (hosted): one return per price after the first, nothing is raised
calculate_daily_returns(prices) ==
    [raised |-> FALSE,
     returns |-> [i \in 1..(Len(prices) - 1) |->
                     [num |-> prices[i + 1] - prices[i], den |-> prices[i]]]]

NoReturns == [raised |-> FALSE, returns |-> <<>>]

\* calculate_daily_returns is not running
ReturnsIdle ==
    /\ drPc = "idle"
    /\ drPrices = <<>>
    /\ drOutcome = NoReturns

\* calculate_daily_returns is called on a price series
ReturnsInit ==
    /\ drPc = "ready"
    /\ drPrices \in PriceSeries
    /\ drOutcome = NoReturns

call_calculate_daily_returns ==
    /\ drPc = "ready"
    /\ drPc' = "done"
    /\ drOutcome' = calculate_daily_returns(drPrices)
    /\ UNCHANGED <<coordVars, sessionStateVars, responsesVars, deliveryVars, synthVars, analyzerVars, sectorVars, convVars, drPrices>>

(***************************************************************************)
(* Delivery of the answer: who receives the report of a request, with      *)
(* requests of several senders in flight                                   *)
(***************************************************************************)
Senders == {"alice", "bob"}

DeliveryRequests == {1, 2}

\* ctx.session of the messages of a sender: every sender talks in a session
\* of its own
SessionOf == [sender \in Senders |-> IF sender = "alice" THEN 1 ELSE 2]

DeliverySessions == {SessionOf[sender] : sender \in Senders}

\* check_and_send_combined_response: ctx.storage.get(str(ctx.session))
report_recipient(session_store, direct_sender, session, r) ==
    session_store[session]

DeliveryIdle ==
    /\ dvPc = [r \in DeliveryRequests |-> "none"]
    /\ dvIssuer = [r \in DeliveryRequests |-> None]
    /\ dvFlow = [r \in DeliveryRequests |-> "none"]
    /\ dvSessionSender = [s \in DeliverySessions |-> None]
    /\ dvDirectSender = [r \in DeliveryRequests |-> None]
    /\ dvDelivered = [r \in DeliveryRequests |-> <<>>]

\* handle_chat_message (hosted): the sender is stored under the session, the
\* text goes to the AI agent
chat_message_received(r, sender) ==
    /\ variant = "hosted"
    /\ dvPc[r] = "none"
    /\ dvPc' = [dvPc EXCEPT ![r] = "extracting"]
    /\ dvIssuer' = [dvIssuer EXCEPT ![r] = sender]
    /\ dvFlow' = [dvFlow EXCEPT ![r] = "chat"]
    /\ dvSessionSender' = [dvSessionSender EXCEPT ![SessionOf[sender]] = sender]
    /\ UNCHANGED <<coordVars, sessionStateVars, responsesVars, synthVars, analyzerVars, sectorVars, convVars, returnsVars, dvDirectSender, dvDelivered>>

\* handle_structured_output (hosted): without a sender stored under the
\* session the answer of the AI agent is dropped, otherwise the request goes
\* to both analyzers
structured_output_received(r) ==
    /\ variant = "hosted"
    /\ dvPc[r] = "extracting"
    /\ dvPc' = [dvPc EXCEPT ![r] =
                   IF dvSessionSender[SessionOf[dvIssuer[r]]] = None
                   THEN "dropped" ELSE "dispatched"]
    /\ UNCHANGED <<coordVars, sessionStateVars, responsesVars, synthVars, analyzerVars, sectorVars, convVars, returnsVars, dvIssuer, dvFlow, dvSessionSender, dvDirectSender, dvDelivered>>

\* handle_direct_analysis_request (hosted): the sender is stored under
\* request_<id>_direct_sender and the request goes to both analyzers
direct_request_received(r, sender) ==
    /\ variant = "hosted"
    /\ dvPc[r] = "none"
    /\ dvPc' = [dvPc EXCEPT ![r] = "dispatched"]
    /\ dvIssuer' = [dvIssuer EXCEPT ![r] = sender]
    /\ dvFlow' = [dvFlow EXCEPT ![r] = "direct"]
    /\ dvDirectSender' = [dvDirectSender EXCEPT ![r] = sender]
    /\ UNCHANGED <<coordVars, sessionStateVars, responsesVars, synthVars, analyzerVars, sectorVars, convVars, returnsVars, dvSessionSender, dvDelivered>>

\* check_and_send_combined_response (hosted), run by the handler of an
\* analyzer response in the session of the request: the report is built, the
\* request marked sent, and the report sent to the sender stored under the
\* session, if there is one
combined_response_sent(r) ==
    /\ variant = "hosted"
    /\ dvPc[r] = "dispatched"
    /\ dvPc' = [dvPc EXCEPT ![r] = "sent"]
    /\ LET session_sender == report_recipient(dvSessionSender, dvDirectSender,
                                               SessionOf[dvIssuer[r]], r)
       IN dvDelivered' = IF session_sender = None THEN dvDelivered
                         ELSE [dvDelivered EXCEPT ![r] = Append(@, session_sender)]
    /\ UNCHANGED <<coordVars, sessionStateVars, responsesVars, synthVars, analyzerVars, sectorVars, convVars, returnsVars, dvIssuer, dvFlow, dvSessionSender, dvDirectSender>>

\* handle_analysis_request (local) up to its waits: `sender` is a parameter
\* of the handler
analysis_request_received(r, sender) ==
    /\ variant = "local"
    /\ dvPc[r] = "none"
    /\ dvPc' = [dvPc EXCEPT ![r] = "dispatched"]
    /\ dvIssuer' = [dvIssuer EXCEPT ![r] = sender]
    /\ dvFlow' = [dvFlow EXCEPT ![r] = "local"]
    /\ UNCHANGED <<coordVars, sessionStateVars, responsesVars, synthVars, analyzerVars, sectorVars, convVars, returnsVars, dvSessionSender, dvDirectSender, dvDelivered>>

\* handle_analysis_request (local), its end: the response or the error
\* message goes to `sender`
analysis_response_sent(r) ==
    /\ variant = "local"
    /\ dvPc[r] = "dispatched"
    /\ dvPc' = [dvPc EXCEPT ![r] = "sent"]
    /\ dvDelivered' = [dvDelivered EXCEPT ![r] = Append(@, dvIssuer[r])]
    /\ UNCHANGED <<coordVars, sessionStateVars, responsesVars, synthVars, analyzerVars, sectorVars, convVars, returnsVars, dvIssuer, dvFlow, dvSessionSender, dvDirectSender>>

(***************************************************************************)
(* Stored analyzer responses: the storage keys are built from the request  *)
(* id, and what is stored under them stays                                 *)
(***************************************************************************)
\* the requests the coordinator receives, in the order of their arrival
Incarnations == {1, 2}

\* the values of the field request_id
RequestIds == {"a", "b"}

AgentNames == {"CorrelationAgent", "SectorAgent"}

\* no response stored under a key, and no response returned by a wait
NoResponse == 0

NoCombined == [built |-> FALSE, correlation |-> NoResponse, sector |-> NoResponse]

\* the ids of the requests received so far
UsedIds == {rsId[k] : k \in {i \in Incarnations : rsPc[i] # "none"}}

\* the request an analyzer answers: its response carries the request id and
\* is the analysis of the portfolio of request k
ResponseTo(k, agent_name) == [agent_name |-> agent_name, request_id |-> rsId'[k], of |-> k]

\* ctx.storage.get(f"{agent_name.lower()}_{request_id}")
stored_response(storage, agent_name, request_id) == storage[<<agent_name, request_id>>]

ResponsesIdle ==
    /\ rsPc = [k \in Incarnations |-> "none"]
    /\ rsId = [k \in Incarnations |-> "a"]
    /\ rsStorage = [key \in AgentNames \X RequestIds |-> NoResponse]
    /\ rsSent = [id \in RequestIds |-> FALSE]
    /\ rsInFlight = {}
    /\ rsCorrelation = [k \in Incarnations |-> NoResponse]
    /\ rsReport = [k \in Incarnations |-> NoCombined]

\* handle_analysis_request (local) up to its first wait: the request id is
\* the one of the message, both analyzers are asked
analysis_request_dispatched(k, request_id) ==
    /\ variant = "local"
    /\ rsPc[k] = "none"
    /\ \A i \in Incarnations : i < k => rsPc[i] # "none"
    /\ rsId' = [rsId EXCEPT ![k] = request_id]
    /\ rsPc' = [rsPc EXCEPT ![k] = "wait_correlation"]
    /\ rsInFlight' = rsInFlight \cup {ResponseTo(k, a) : a \in AgentNames}
    /\ UNCHANGED <<coordVars, sessionStateVars, synthVars, analyzerVars, sectorVars, convVars, returnsVars, deliveryVars, rsStorage, rsSent, rsCorrelation, rsReport>>

\* handle_correlation_response and handle_sector_response (local): the
\* response is stored under <agent>_<request_id>
response_stored(m) ==
    /\ variant = "local"
    /\ m \in rsInFlight
    /\ rsInFlight' = rsInFlight \ {m}
    /\ rsStorage' = [rsStorage EXCEPT ![<<m.agent_name, m.request_id>>] = m.of]
    /\ UNCHANGED <<coordVars, sessionStateVars, synthVars, analyzerVars, sectorVars, convVars, returnsVars, deliveryVars, rsPc, rsId, rsSent, rsCorrelation, rsReport>>

\* wait_for_response for the correlation analyzer returns: what is stored
\* under the key, or None once the timeout has passed with nothing stored
wait_for_correlation_returns(k, timed_out) ==
    /\ variant = "local"
    /\ rsPc[k] = "wait_correlation"
    /\ LET response == stored_response(rsStorage, "CorrelationAgent", rsId[k])
       IN /\ timed_out <=> response = NoResponse
          /\ rsCorrelation' = [rsCorrelation EXCEPT ![k] = response]
    /\ rsPc' = [rsPc EXCEPT ![k] = "wait_sector"]
    /\ UNCHANGED <<coordVars, sessionStateVars, synthVars, analyzerVars, sectorVars, convVars, returnsVars, deliveryVars, rsId, rsStorage, rsSent, rsInFlight, rsReport>>

\* wait_for_response for the sector analyzer returns, and the rest of
\* handle_analysis_request: the response is built from what the waits returned
wait_for_sector_returns(k, timed_out) ==
    /\ variant = "local"
    /\ rsPc[k] = "wait_sector"
    /\ LET response == stored_response(rsStorage, "SectorAgent", rsId[k])
       IN /\ timed_out <=> response = NoResponse
          /\ rsReport' = [rsReport EXCEPT ![k] =
                 [built |-> TRUE, correlation |-> rsCorrelation[k], sector |-> response]]
    /\ rsPc' = [rsPc EXCEPT ![k] = "reported"]
    /\ UNCHANGED <<coordVars, sessionStateVars, synthVars, analyzerVars, sectorVars, convVars, returnsVars, deliveryVars, rsId, rsStorage, rsSent, rsInFlight, rsCorrelation>>

\* handle_structured_output (hosted): request_id = str(uuid4()), an id no
\* earlier request has; both analyzers are asked
chat_request_dispatched(k, request_id) ==
    /\ variant = "hosted"
    /\ rsPc[k] = "none"
    /\ \A i \in Incarnations : i < k => rsPc[i] # "none"
    /\ request_id \notin UsedIds
    /\ rsId' = [rsId EXCEPT ![k] = request_id]
    /\ rsPc' = [rsPc EXCEPT ![k] = "dispatched"]
    /\ rsInFlight' = rsInFlight \cup {ResponseTo(k, a) : a \in AgentNames}
    /\ UNCHANGED <<coordVars, sessionStateVars, synthVars, analyzerVars, sectorVars, convVars, returnsVars, deliveryVars, rsStorage, rsSent, rsCorrelation, rsReport>>

\* handle_correlation_response and handle_sector_response (hosted): the
\* response is stored under its request id, then
\* check_and_send_combined_response reports what is stored under that id,
\* unless the id is marked sent or a response is missing before the ceiling
response_stored_and_checked(m, ceiling_exceeded) ==
    /\ variant = "hosted"
    /\ m \in rsInFlight
    /\ rsInFlight' = rsInFlight \ {m}
    /\ rsStorage' = [rsStorage EXCEPT ![<<m.agent_name, m.request_id>>] = m.of]
    /\ LET correlation_response == stored_response(rsStorage', "CorrelationAgent", m.request_id)
           sector_response == stored_response(rsStorage', "SectorAgent", m.request_id)
           has_both_stored == correlation_response # NoResponse /\ sector_response # NoResponse
           k == CHOOSE i \in Incarnations : rsPc[i] # "none" /\ rsId[i] = m.request_id
       IN IF rsSent[m.request_id] \/ ~(has_both_stored \/ ceiling_exceeded) THEN
              UNCHANGED <<rsSent, rsPc, rsReport>>
          ELSE
              /\ rsSent' = [rsSent EXCEPT ![m.request_id] = TRUE]
              /\ rsPc' = [rsPc EXCEPT ![k] = "reported"]
              /\ rsReport' = [rsReport EXCEPT ![k] =
                     [built |-> TRUE, correlation |-> correlation_response,
                      sector |-> sector_response]]
    /\ UNCHANGED <<coordVars, sessionStateVars, synthVars, analyzerVars, sectorVars, convVars, returnsVars, deliveryVars, rsId, rsCorrelation>>

(***************************************************************************)
(* The analyses kept in the conversation state of one session, over        *)
(* several analysis requests.  A wallet and an analysis are named by the   *)
(* request they belong to.                                                 *)
(***************************************************************************)
\* the analysis requests of the session, in their order
SessionRequests == {1, 2, 3, 4}

\* handle_structured_output: a wallet was extracted, request n starts; the
\* state is created when the session has none, else its wallet is replaced
\* (one analysis in flight at a time)
wallet_extracted(n) ==
    /\ stInFlight = 0
    /\ n = stStarted + 1
    /\ stStarted' = n
    /\ stInFlight' = n
    /\ stState' = IF stState.present THEN [stState EXCEPT !.wallet = n]
                  ELSE init_conversation_state(n)
    /\ UNCHANGED <<coordVars, synthVars, analyzerVars, sectorVars, convVars, returnsVars, deliveryVars, responsesVars, stReported, stEnded>>

\* check_and_send_combined_response for the request in flight: both responses
\* are there or the ceiling has passed, synthesis runs when both are there
\* and may raise; after the report was sent the state of the session, if it
\* has one, is updated with what the report held
report_sent_and_recorded(correlation_present, sector_present, synthesis_fails) ==
    /\ stInFlight # 0
    /\ LET n == stInFlight
           correlation_response == IF correlation_present THEN n ELSE 0
           sector_response == IF sector_present THEN n ELSE 0
           synthesis == IF correlation_present /\ sector_present /\ ~synthesis_fails
                        THEN n ELSE 0
       IN  /\ stState' = IF stState.present
                         THEN update_conversation_state(stState, n, correlation_response,
                                                        sector_response, synthesis)
                         ELSE stState
           /\ stReported' = n
    /\ stInFlight' = 0
    /\ UNCHANGED <<coordVars, synthVars, analyzerVars, sectorVars, convVars, returnsVars, deliveryVars, responsesVars, stStarted, stEnded>>

\* handle_chat_message, EndSessionContent: the state of the session is dropped
state_dropped ==
    /\ ~stEnded
    /\ stState.present
    /\ stEnded' = TRUE
    /\ stState' = NoConversation
    /\ UNCHANGED <<coordVars, synthVars, analyzerVars, sectorVars, convVars, returnsVars, deliveryVars, responsesVars, stStarted, stInFlight, stReported>>

\* the session has no state and no request
SessionStateIdle ==
    /\ stState = NoConversation
    /\ stStarted = 0
    /\ stInFlight = 0
    /\ stReported = 0
    /\ stEnded = FALSE

(***************************************************************************)
(* Initial state: nothing received, storage empty                          *)
(***************************************************************************)
CoordinatorInit ==
    /\ variant \in {"hosted", "local"}
    /\ now = 0
    /\ reqFlow = [r \in Requests |-> "none"]
    /\ reqSession = [r \in Requests |-> 0]
    /\ hpc = [r \in Requests |-> "none"]
    /\ corrStore = [r \in Requests |-> None]
    /\ sectStore = [r \in Requests |-> None]
    /\ sent = [r \in Requests |-> FALSE]
    /\ startTime = [r \in Requests |-> -1]
    /\ userMessage = [r \in Requests |-> FALSE]
    /\ sessionSender = [s \in Sessions |-> None]
    /\ conv = [s \in Sessions |-> NoConversation]
    /\ pending = {}
    /\ lpc = [r \in Requests |-> "none"]
    /\ waitStart = [r \in Requests |-> -1]
    /\ lCorr = [r \in Requests |-> None]
    /\ lSect = [r \in Requests |-> None]
    /\ outbox = [r \in Requests |-> <<>>]
    /\ synthLog = [r \in Requests |-> <<>>]
    /\ trace = [r \in Requests |-> <<>>]
    /\ arrivals = [r \in Requests |-> <<>>]
    /\ waits = [r \in Requests |-> <<>>]
    /\ storedAfterReport = [r \in Requests |-> FALSE]
    /\ analyzerErrors = [r \in Requests |-> [corr |-> None, sect |-> None]]

Init == CoordinatorInit /\ SynthIdle /\ AnalyzerIdle /\ SectorIdle /\ ConversationInit /\ ReturnsIdle /\ DeliveryIdle /\ ResponsesIdle /\ SessionStateIdle

\* When a response arrives, measured against the budgets of the design:
\*   "in_budget"      while the coordinator waits for this analyzer: before the
\*                    joint ceiling (hosted), before the end of the per-agent
\*                    timeout of this analyzer's wait (local)
\*   "late"           after that, but before the joint ceiling
\*   "after_ceiling"  at or after the joint ceiling
arrival_timing(r, role) ==
    IF now - startTime[r] >= 2 * AGENT_RESPONSE_TIMEOUT THEN "after_ceiling"
    ELSE IF variant = "hosted" THEN "in_budget"
    ELSE IF role = "corr" THEN
        IF \/ lpc[r] \in {"sending_correlation_request", "sending_sector_request"}
           \/ lpc[r] = "wait_correlation" /\ now - waitStart[r] < AGENT_RESPONSE_TIMEOUT
        THEN "in_budget" ELSE "late"
    ELSE
        IF \/ lpc[r] \in {"sending_sector_request", "wait_correlation"}
           \/ lpc[r] = "wait_sector" /\ now - waitStart[r] < AGENT_RESPONSE_TIMEOUT
        THEN "in_budget" ELSE "late"

\* the first storing of a response of `role` for r is recorded with its timing
record_arrival(r, role, store) ==
    IF store[r] = None
    THEN [arrivals EXCEPT ![r] = Append(@, <<role, arrival_timing(r, role)>>)]
    ELSE arrivals

(***************************************************************************)
(* Hosted coordinator                                                      *)
(***************************************************************************)
\* the check left out: every response handler goes on to the emission
already_sent_unchecked(s, r) == FALSE

\* "Check if already sent"
already_sent(s, r) == s[r]

\* the marker not written before the handler suspends in ctx.send
mark_sent_skipped(s, r) == s

\* "Mark as sent", before the first suspension point of the function
mark_sent(s, r) == [s EXCEPT ![r] = TRUE]

\* the join looking at the correlation response only
has_both_correlation_only(c, s) == c # None

has_both(c, s) == c # None /\ s # None

timeout_exceeded(elapsed) == elapsed >= AGENT_RESPONSE_TIMEOUT * 2

\* handle_chat_message, a text that asks for a new analysis: the sender is
\* stored under the session and the text goes to the AI agent for the wallet
handle_chat_message(r, s) ==
    /\ variant = "hosted"
    /\ reqFlow[r] = "none"
    /\ now <= LatestStart
    /\ reqFlow' = [reqFlow EXCEPT ![r] = "chat"]
    /\ reqSession' = [reqSession EXCEPT ![r] = s]
    /\ sessionSender' = [sessionSender EXCEPT ![s] = ChatUser]
    /\ hpc' = [hpc EXCEPT ![r] = "extracting"]
    /\ UNCHANGED <<engineVars, variant, analyzerErrors, now, corrStore, sectStore, sent, startTime,
                   userMessage, conv, pending, outbox,
                   synthLog, trace, arrivals, storedAfterReport, localVars>>

\* handle_structured_output: the AI agent's answer.  out = "wallet": a demo
\* wallet was extracted; "no_wallet": neither the AI agent nor the regex found
\* an address; "not_demo": load_demo_wallet_from_github raised ValueError.
handle_structured_output(r, out) ==
    /\ variant = "hosted"
    /\ hpc[r] = "extracting"
    /\ now <= LatestStart
    /\ LET s == reqSession[r]
           session_sender == sessionSender[s]
       IN IF session_sender = None THEN
              /\ hpc' = [hpc EXCEPT ![r] = "dropped"]
              /\ UNCHANGED <<outbox, conv, startTime, userMessage, trace>>
          ELSE IF out # "wallet" THEN
              /\ hpc' = [hpc EXCEPT ![r] = "failed"]
              /\ outbox' = [outbox EXCEPT ![r] = Append(@, ErrorMessage(session_sender, "chat_error"))]
              /\ UNCHANGED <<conv, startTime, userMessage, trace>>
          ELSE
              /\ conv' = [conv EXCEPT ![s] =
                            IF conv[s].present THEN [conv[s] EXCEPT !.wallet = r]
                            ELSE init_conversation_state(r)]
              /\ startTime' = [startTime EXCEPT ![r] = now]
              /\ userMessage' = [userMessage EXCEPT ![r] = TRUE]
              /\ hpc' = [hpc EXCEPT ![r] = "dispatched"]
              /\ trace' = [trace EXCEPT ![r] = <<"Dispatched", "AwaitingBoth">>]
              /\ UNCHANGED outbox
    /\ UNCHANGED <<engineVars, variant, analyzerErrors, now, reqFlow, reqSession, corrStore, sectStore, sent,
                   sessionSender, pending, synthLog,
                   arrivals, storedAfterReport, localVars>>

\* handle_direct_analysis_request: metadata stored, request forwarded to both
\* analyzers; the sender is stored under request_<id>_direct_sender, a key
\* that nothing reads
handle_direct_analysis_request(r, s) ==
    /\ variant = "hosted"
    /\ reqFlow[r] = "none"
    /\ now <= LatestStart
    /\ reqFlow' = [reqFlow EXCEPT ![r] = "direct"]
    /\ reqSession' = [reqSession EXCEPT ![r] = s]
    /\ startTime' = [startTime EXCEPT ![r] = now]
    /\ hpc' = [hpc EXCEPT ![r] = "dispatched"]
    /\ trace' = [trace EXCEPT ![r] = <<"Dispatched", "AwaitingBoth">>]
    /\ UNCHANGED <<engineVars, variant, analyzerErrors, now, corrStore, sectStore, sent, userMessage,
                   sessionSender, conv, pending, outbox,
                   synthLog, arrivals, storedAfterReport, localVars>>

\* check_and_send_combined_response up to `await ctx.send(session_sender, ..)`,
\* on the storage as the calling handler left it (cs, ss)
check_and_send_combined_response(r, cs, ss) ==
    LET c == cs[r]
        s == ss[r]
        elapsed == now - startTime[r]
    IN  IF already_sent(sent, r) \/ startTime[r] = -1 THEN
            UNCHANGED <<sent, outbox, pending, synthLog, trace>>
        ELSE IF ~(has_both(c, s) \/ timeout_exceeded(elapsed)) THEN
            UNCHANGED <<sent, outbox, pending, synthLog, trace>>
        ELSE
            LET synthesis == run_synthesis(c, s)
                text == format_combined_response(c, s, synthesis)
                session_sender == sessionSender[reqSession[r]]
                joined == <<IF has_both(c, s) THEN "BothArrived" ELSE "TimedOut">>
                          \o (IF synthesis_attempted(c, s) THEN <<"Synthesized">> ELSE <<>>)
            IN  /\ sent' = mark_sent(sent, r)
                /\ synthLog' = [synthLog EXCEPT ![r] = @ \o synthesis_outcome(c, s)]
                /\ IF session_sender = None THEN
                       /\ trace' = [trace EXCEPT ![r] = @ \o joined]
                       /\ UNCHANGED <<outbox, pending>>
                   ELSE
                       /\ trace' = [trace EXCEPT ![r] = @ \o joined \o <<"Reported">>]
                       /\ outbox' = [outbox EXCEPT ![r] =
                                        Append(@, ReportMessage(session_sender, text, elapsed))]
                       /\ pending' = pending \cup
                              {[rid |-> r, session |-> reqSession[r],
                                corr |-> IF c # None THEN r ELSE 0,
                                sect |-> IF s # None THEN r ELSE 0,
                                synth |-> IF synthesis # None THEN r ELSE 0]}

\* handle_correlation_response (hosted): store, then check
handle_correlation_response_hosted(r, k) ==
    /\ variant = "hosted"
    /\ hpc[r] = "dispatched"
    /\ corrStore' = [corrStore EXCEPT ![r] = k]
    /\ arrivals' = record_arrival(r, "corr", corrStore)
    /\ storedAfterReport' = [storedAfterReport EXCEPT ![r] = @ \/ Reports(r) # <<>>]
    /\ check_and_send_combined_response(r, corrStore', sectStore)
    /\ UNCHANGED <<engineVars, variant, analyzerErrors, now, reqFlow, reqSession, hpc, sectStore, startTime,
                   userMessage, sessionSender, conv, localVars>>

\* handle_sector_response (hosted): store, then check
handle_sector_response_hosted(r, k) ==
    /\ variant = "hosted"
    /\ hpc[r] = "dispatched"
    /\ sectStore' = [sectStore EXCEPT ![r] = k]
    /\ arrivals' = record_arrival(r, "sect", sectStore)
    /\ storedAfterReport' = [storedAfterReport EXCEPT ![r] = @ \/ Reports(r) # <<>>]
    /\ check_and_send_combined_response(r, corrStore, sectStore')
    /\ UNCHANGED <<engineVars, variant, analyzerErrors, now, reqFlow, reqSession, hpc, corrStore, startTime,
                   userMessage, sessionSender, conv, localVars>>

\* check_and_send_combined_response after `await ctx.send`: the conversation
\* state of the session is updated with the results that were reported
resume_after_send(h) ==
    /\ variant = "hosted"
    /\ h \in pending
    /\ pending' = pending \ {h}
    /\ conv' = IF conv[h.session].present /\ userMessage[h.rid]
               THEN [conv EXCEPT ![h.session] =
                        update_conversation_state(@, h.rid, h.corr, h.sect, h.synth)]
               ELSE conv
    /\ UNCHANGED <<engineVars, variant, analyzerErrors, now, reqFlow, reqSession, hpc, corrStore, sectStore,
                   sent, startTime, userMessage, sessionSender, outbox, synthLog, trace, arrivals, storedAfterReport, localVars>>

(***************************************************************************)
(* Local coordinator                                                       *)
(***************************************************************************)
\* the requests handle_analysis_request has sent so far, by its position
correlation_requested(r) ==
    lpc[r] \in {"sending_correlation_request", "sending_sector_request",
                "wait_correlation", "wait_sector", "failed", "done"}

sector_requested(r) ==
    lpc[r] \in {"sending_sector_request", "wait_correlation", "wait_sector", "done"}

\* the loop condition of wait_for_response
still_waiting(elapsed) == elapsed < AGENT_RESPONSE_TIMEOUT

\* one iteration of the polling loop returns a response
poll_finds(r, store) == still_waiting(now - waitStart[r]) /\ store[r] # None

\* the polling loop ends without a response
poll_times_out(r) == ~still_waiting(now - waitStart[r])

\* handle_analysis_request up to its first suspension: the sender is stored,
\* the portfolio parsed (ValueError when invalid: an invalid_data ErrorMessage
\* goes back), the request sent to the correlation analyzer
handle_analysis_request(r, portfolio_valid) ==
    /\ variant = "local"
    /\ reqFlow[r] = "none"
    /\ now <= LatestStart
    /\ reqFlow' = [reqFlow EXCEPT ![r] = "local"]
    /\ startTime' = [startTime EXCEPT ![r] = now]
    /\ IF portfolio_valid THEN
           /\ lpc' = [lpc EXCEPT ![r] = "sending_correlation_request"]
           /\ UNCHANGED outbox
       ELSE
           /\ lpc' = [lpc EXCEPT ![r] = "rejected"]
           /\ outbox' = [outbox EXCEPT ![r] = Append(@, ErrorMessage(PeerAgent, "invalid_data"))]
    /\ UNCHANGED <<engineVars, variant, analyzerErrors, now, reqSession, corrStore, sectStore, synthLog, trace, arrivals, storedAfterReport, waitStart, lCorr,
                   lSect, waits, hostedVars>>

\* the first ctx.send returns (or raises: the generic handler answers with an
\* agent_unavailable ErrorMessage); the request goes to the sector analyzer
send_sector_request(r, send_ok) ==
    /\ variant = "local"
    /\ lpc[r] = "sending_correlation_request"
    /\ IF send_ok THEN
           /\ lpc' = [lpc EXCEPT ![r] = "sending_sector_request"]
           /\ UNCHANGED outbox
       ELSE
           /\ lpc' = [lpc EXCEPT ![r] = "failed"]
           /\ outbox' = [outbox EXCEPT ![r] = Append(@, ErrorMessage(PeerAgent, "agent_unavailable"))]
    /\ UNCHANGED <<engineVars, variant, analyzerErrors, now, reqFlow, reqSession, corrStore, sectStore,
                   startTime, synthLog, trace, arrivals, storedAfterReport,
                   waitStart, lCorr, lSect, waits, hostedVars>>

\* both requests are out: wait_for_response(.., "CorrelationAgent") starts
begin_wait(r) ==
    /\ variant = "local"
    /\ lpc[r] = "sending_sector_request"
    /\ lpc' = [lpc EXCEPT ![r] = "wait_correlation"]
    /\ waitStart' = [waitStart EXCEPT ![r] = now]
    /\ trace' = [trace EXCEPT ![r] = <<"Dispatched", "AwaitingBoth">>]
    /\ UNCHANGED <<engineVars, variant, analyzerErrors, now, reqFlow, reqSession, corrStore, sectStore,
                   startTime, outbox, synthLog, arrivals, storedAfterReport,
                   lCorr, lSect, waits, hostedVars>>

\* wait_for_response(.., "CorrelationAgent") returns, with the stored response
\* or with None; wait_for_response(.., "SectorAgent") starts
poll_correlation(r) ==
    /\ variant = "local"
    /\ lpc[r] = "wait_correlation"
    /\ poll_finds(r, corrStore) \/ poll_times_out(r)
    /\ lCorr' = [lCorr EXCEPT ![r] = IF poll_finds(r, corrStore) THEN corrStore[r] ELSE None]
    /\ waits' = [waits EXCEPT ![r] = Append(@, <<"corr", now - waitStart[r]>>)]
    /\ waitStart' = [waitStart EXCEPT ![r] = now]
    /\ lpc' = [lpc EXCEPT ![r] = "wait_sector"]
    /\ UNCHANGED <<engineVars, variant, analyzerErrors, now, reqFlow, reqSession, corrStore, sectStore,
                   startTime, outbox, synthLog, trace,
                   arrivals, storedAfterReport, lSect, hostedVars>>

\* wait_for_response(.., "SectorAgent") returns; synthesis when both responses
\* are there, the report is formatted and sent to the sender of the request
poll_sector(r) ==
    /\ variant = "local"
    /\ lpc[r] = "wait_sector"
    /\ poll_finds(r, sectStore) \/ poll_times_out(r)
    /\ LET c == lCorr[r]
           s == IF poll_finds(r, sectStore) THEN sectStore[r] ELSE None
           synthesis == run_synthesis(c, s)
           text == format_combined_response(c, s, synthesis)
           joined == <<IF c # None /\ s # None THEN "BothArrived" ELSE "TimedOut">>
                     \o (IF synthesis_attempted(c, s) THEN <<"Synthesized">> ELSE <<>>)
       IN  /\ lSect' = [lSect EXCEPT ![r] = s]
           /\ synthLog' = [synthLog EXCEPT ![r] = @ \o synthesis_outcome(c, s)]
           /\ outbox' = [outbox EXCEPT ![r] =
                            Append(@, ReportMessage(PeerAgent, text, now - startTime[r]))]
           /\ trace' = [trace EXCEPT ![r] = @ \o joined \o <<"Reported">>]
    /\ waits' = [waits EXCEPT ![r] = Append(@, <<"sect", now - waitStart[r]>>)]
    /\ lpc' = [lpc EXCEPT ![r] = "done"]
    /\ UNCHANGED <<engineVars, variant, analyzerErrors, now, reqFlow, reqSession, corrStore, sectStore,
                   startTime, arrivals, storedAfterReport, waitStart, lCorr,
                   hostedVars>>

\* handle_correlation_response (local): store only
handle_correlation_response_local(r, k) ==
    /\ variant = "local"
    /\ correlation_requested(r)
    /\ corrStore' = [corrStore EXCEPT ![r] = k]
    /\ arrivals' = record_arrival(r, "corr", corrStore)
    /\ storedAfterReport' = [storedAfterReport EXCEPT ![r] = @ \/ Reports(r) # <<>>]
    /\ UNCHANGED <<engineVars, variant, analyzerErrors, now, reqFlow, reqSession, sectStore, startTime,
                   outbox, synthLog, trace, localVars, hostedVars>>

\* handle_sector_response (local): store only
handle_sector_response_local(r, k) ==
    /\ variant = "local"
    /\ sector_requested(r)
    /\ sectStore' = [sectStore EXCEPT ![r] = k]
    /\ arrivals' = record_arrival(r, "sect", sectStore)
    /\ storedAfterReport' = [storedAfterReport EXCEPT ![r] = @ \/ Reports(r) # <<>>]
    /\ UNCHANGED <<engineVars, variant, analyzerErrors, now, reqFlow, reqSession, corrStore, startTime,
                   outbox, synthLog, trace, localVars, hostedVars>>

(***************************************************************************)
(* Analyzer failures                                                       *)
(***************************************************************************)
\* the error_type an analyzer puts in its ErrorMessage
AnalyzerErrorTypes == {"invalid_data", "insufficient_data"}

\* the analyzer's handler has the request
analyzer_has_request(r, role) ==
    IF variant = "local"
    THEN IF role = "corr" THEN correlation_requested(r) ELSE sector_requested(r)
    ELSE hpc[r] = "dispatched"

\* An analyzer fails the request and sends an ErrorMessage to the coordinator.
\* Neither coordinator registers a handler for ErrorMessage: the message
\* changes nothing in its storage and calls nothing.
analyzer_sends_error(r, role, error_type) ==
    /\ analyzer_has_request(r, role)
    /\ analyzerErrors[r][role] = None
    /\ analyzerErrors' = [analyzerErrors EXCEPT ![r][role] = error_type]
    /\ UNCHANGED <<engineVars, variant, now, reqFlow, reqSession, corrStore, sectStore,
                   startTime, outbox, synthLog, trace, arrivals,
                   storedAfterReport, localVars, hostedVars>>

(***************************************************************************)
(* The clock                                                               *)
(***************************************************************************)
\* a segment of the local handler that runs within the current tick: a send
\* that is returning, or a poll that finds its response or its timeout
local_step_due(r) ==
    \/ lpc[r] \in {"sending_correlation_request", "sending_sector_request"}
    \/ lpc[r] = "wait_correlation" /\ (poll_finds(r, corrStore) \/ poll_times_out(r))
    \/ lpc[r] = "wait_sector" /\ (poll_finds(r, sectStore) \/ poll_times_out(r))

Tick ==
    /\ now < MaxTime
    /\ variant = "local" => \A r \in Requests : ~local_step_due(r)
    /\ now' = now + 1
    /\ UNCHANGED <<engineVars, variant, analyzerErrors, reqFlow, reqSession, corrStore, sectStore, startTime,
                   outbox, synthLog, trace, arrivals, storedAfterReport,
                   localVars, hostedVars>>

(***************************************************************************)
(* Specifications                                                          *)
(***************************************************************************)
Next ==
    \/ \E r \in Requests, s \in Sessions : handle_chat_message(r, s)
    \/ \E r \in Requests, out \in {"wallet", "no_wallet", "not_demo"} :
          handle_structured_output(r, out)
    \/ \E r \in Requests, s \in Sessions : handle_direct_analysis_request(r, s)
    \/ \E r \in Requests, k \in PayloadKinds : handle_correlation_response_hosted(r, k)
    \/ \E r \in Requests, k \in PayloadKinds : handle_sector_response_hosted(r, k)
    \/ \E h \in pending : resume_after_send(h)
    \/ \E r \in Requests, ok \in BOOLEAN : handle_analysis_request(r, ok)
    \/ \E r \in Requests, ok \in BOOLEAN : send_sector_request(r, ok)
    \/ \E r \in Requests : begin_wait(r)
    \/ \E r \in Requests : poll_correlation(r)
    \/ \E r \in Requests : poll_sector(r)
    \/ \E r \in Requests, k \in PayloadKinds : handle_correlation_response_local(r, k)
    \/ \E r \in Requests, k \in PayloadKinds : handle_sector_response_local(r, k)
    \/ \E r \in Requests, role \in {"corr", "sect"}, e \in AnalyzerErrorTypes :
          analyzer_sends_error(r, role, e)
    \/ Tick

Spec == Init /\ [][Next]_vars

\* The coordinator's own segments and the clock run when they can; requests
\* and analyzer responses come from outside and need never come.
Fairness ==
    /\ WF_vars(Tick)
    /\ WF_vars(\E h \in pending : resume_after_send(h))
    /\ WF_vars(\E r \in Requests, ok \in BOOLEAN : send_sector_request(r, ok))
    /\ WF_vars(\E r \in Requests : begin_wait(r))
    /\ WF_vars(\E r \in Requests : poll_correlation(r))
    /\ WF_vars(\E r \in Requests : poll_sector(r))

FairSpec == Spec /\ Fairness

\* One call of synthesis_analysis on every pair of analyses, the coordinator
\* at rest.
SynthesisInit == CoordinatorInit /\ SynthInit /\ AnalyzerIdle /\ SectorIdle /\ ConversationInit /\ ReturnsIdle /\ DeliveryIdle /\ ResponsesIdle /\ SessionStateIdle

SynthesisNext == call_synthesis_analysis

SynthesisSpec == SynthesisInit /\ [][SynthesisNext]_vars

\* One AnalysisRequest at the correlation analyzer, on every portfolio and
\* every state of the price files, the coordinator at rest.
AnalyzerSpecInit == CoordinatorInit /\ SynthIdle /\ AnalyzerInit /\ SectorIdle /\ ConversationInit /\ ReturnsIdle /\ DeliveryIdle /\ ResponsesIdle /\ SessionStateIdle

AnalyzerNext == handle_correlation_analysis_request

AnalyzerSpec == AnalyzerSpecInit /\ [][AnalyzerNext]_vars

\* One AnalysisRequest at the sector analyzer, local or hosted, on every
\* portfolio_data, the coordinator at rest.
SectorSpecInit == CoordinatorInit /\ SynthIdle /\ AnalyzerIdle /\ SectorInit /\ ConversationInit /\ ReturnsIdle /\ DeliveryIdle /\ ResponsesIdle /\ SessionStateIdle

SectorNext == handle_sector_analysis_request

SectorSpec == SectorSpecInit /\ [][SectorNext]_vars

\* The chat sessions of the hosted coordinator and their conversation
\* states, the handlers interleaved at their awaits, the analyses at rest.
ConversationSpecInit == CoordinatorInit /\ variant = "hosted" /\ SynthIdle /\ AnalyzerIdle /\ SectorIdle /\ ConversationInit /\ ReturnsIdle /\ DeliveryIdle /\ ResponsesIdle /\ SessionStateIdle

ConversationNext ==
    \/ \E s \in ChatSessions : start_wallet_analysis(s)
    \/ \E s \in ChatSessions : record_report(s)
    \/ \E s \in ChatSessions, kind \in {"unclear", "followup"} : ask_question(s, kind)
    \/ \E s \in ChatSessions : resume_question(s)
    \/ \E s \in ChatSessions : end_session(s)

ConversationSpec == ConversationSpecInit /\ [][ConversationNext]_vars

\* One call of calculate_daily_returns on every price series, the rest idle.
ReturnsSpecInit == CoordinatorInit /\ SynthIdle /\ AnalyzerIdle /\ SectorIdle /\ ConversationInit /\ ReturnsInit /\ DeliveryIdle /\ ResponsesIdle /\ SessionStateIdle

ReturnsNext == call_calculate_daily_returns

ReturnsSpec == ReturnsSpecInit /\ [][ReturnsNext]_vars

(***************************************************************************)
(* Specification of the delivery: requests of two senders, received and    *)
(* answered in any order                                                   *)
(***************************************************************************)
DeliverySpecInit == CoordinatorInit /\ SynthIdle /\ AnalyzerIdle /\ SectorIdle /\ ConversationInit /\ ReturnsIdle /\ DeliveryIdle /\ ResponsesIdle /\ SessionStateIdle

DeliveryNext ==
    \/ \E r \in DeliveryRequests, sender \in Senders : chat_message_received(r, sender)
    \/ \E r \in DeliveryRequests : structured_output_received(r)
    \/ \E r \in DeliveryRequests, sender \in Senders : direct_request_received(r, sender)
    \/ \E r \in DeliveryRequests : combined_response_sent(r)
    \/ \E r \in DeliveryRequests, sender \in Senders : analysis_request_received(r, sender)
    \/ \E r \in DeliveryRequests : analysis_response_sent(r)

DeliverySpec == DeliverySpecInit /\ [][DeliveryNext]_vars

(***************************************************************************)
(* Specification of the stored responses: two requests one after the       *)
(* other, their responses arriving at any time or never                    *)
(***************************************************************************)
ResponsesSpecInit == CoordinatorInit /\ SynthIdle /\ AnalyzerIdle /\ SectorIdle /\ ConversationInit /\ ReturnsIdle /\ DeliveryIdle /\ ResponsesIdle /\ SessionStateIdle

ResponsesNext ==
    \/ \E k \in Incarnations, request_id \in RequestIds : analysis_request_dispatched(k, request_id)
    \/ \E m \in rsInFlight : response_stored(m)
    \/ \E k \in Incarnations, timed_out \in BOOLEAN : wait_for_correlation_returns(k, timed_out)
    \/ \E k \in Incarnations, timed_out \in BOOLEAN : wait_for_sector_returns(k, timed_out)
    \/ \E k \in Incarnations, request_id \in RequestIds : chat_request_dispatched(k, request_id)
    \/ \E m \in rsInFlight, ceiling_exceeded \in BOOLEAN : response_stored_and_checked(m, ceiling_exceeded)

ResponsesSpec == ResponsesSpecInit /\ [][ResponsesNext]_vars

(***************************************************************************)
(* Specification of the stored analyses: the requests of one session, each *)
(* reported with any of its analyses present or absent                     *)
(***************************************************************************)
SessionStateSpecInit == CoordinatorInit /\ variant = "hosted" /\ SynthIdle /\ AnalyzerIdle /\ SectorIdle /\ ConversationInit /\ ReturnsIdle /\ DeliveryIdle /\ ResponsesIdle /\ SessionStateIdle

SessionStateNext ==
    \/ \E n \in SessionRequests : wallet_extracted(n)
    \/ \E correlation_present, sector_present, synthesis_fails \in BOOLEAN :
           report_sent_and_recorded(correlation_present, sector_present, synthesis_fails)
    \/ state_dropped

SessionStateSpec == SessionStateSpecInit /\ [][SessionStateNext]_vars

(***************************************************************************)
(* Vocabulary of the properties                                            *)
(***************************************************************************)
\* the request was sent to both analyzers
Dispatched(r) == trace[r] # <<>>

\* the joint ceiling of 2 x AGENT_RESPONSE_TIMEOUT has elapsed for r
CeilingElapsed(r) ==
    startTime[r] # -1 /\ now - startTime[r] >= 2 * AGENT_RESPONSE_TIMEOUT

\* the first response of `role` came within its budget
InBudget(r, role) ==
    \E i \in 1..Len(arrivals[r]) : arrivals[r][i] = <<role, "in_budget">>

\* the coordinator has ended its handling of r
Finished(r) ==
    \/ lpc[r] \in {"rejected", "failed", "done"}
    \/ hpc[r] \in {"failed", "dropped"}
    \/ sent[r]

(***************************************************************************)
(* Properties                                                              *)
(***************************************************************************)
\* C1: for one request id the combined report is emitted at most once; a
\* response stored after the report was emitted leaves the single report as
\* it is.
C1_AtMostOneReport ==
    \A r \in Requests : Len(Reports(r)) <= 1

\* C1 happens: the report is out and a (late or duplicate) response was stored
\* after it.
C1_Witness ==
    \E r \in Requests : Len(Reports(r)) = 1 /\ storedAfterReport[r]

\* C2: once the joint ceiling has elapsed for a dispatched request with a
\* response still missing, the coordinator eventually emits a report, whether
\* the missing analyzer answers late or never.
C2_CeilingLeadsToReport ==
    \A r \in Requests :
        (Dispatched(r) /\ CeilingElapsed(r) /\ (corrStore[r] = None \/ sectStore[r] = None))
            ~> (Reports(r) # <<>>)

\* C3: every way the handling of a request ends has sent a message back to
\* the requester: the report (degraded or not) or an error message.
C3_EveryEndAnswers ==
    \A r \in Requests : Finished(r) => outbox[r] # <<>>

\* C4: the check of the sent marker and its setting are one step: whenever a
\* handler is suspended in the emission, the marker is set and the report it
\* sends is the only one, whatever handlers run meanwhile.
C4_CheckAndSetAtomic ==
    \A r \in Requests :
        (\E h \in pending : h.rid = r) => sent[r] /\ Len(Reports(r)) = 1

\* C4 happens: another response handler ran while the emitting handler was
\* suspended in its send.
C4_Witness ==
    \E r \in Requests :
        /\ \E h \in pending : h.rid = r
        /\ storedAfterReport[r]

\* C5: for responses that arrive within the budget the report is the same
\* whichever analyzer answers first: both analyses are in it and synthesis
\* was attempted once, its outcome shown in the synthesis section.
C5_OrderIndependent ==
    \A r \in Requests : \A first \in {"corr", "sect"} :
        (/\ Reports(r) # <<>>
         /\ InBudget(r, "corr") /\ InBudget(r, "sect")
         /\ arrivals[r][1][1] = first)
        => LET m == Reports(r)[1]
           IN  /\ m.corr = "verbatim" /\ m.sect = "verbatim"
               /\ Len(synthLog[r]) = 1
               /\ m.synth = IF synthLog[r][1] = "verdict" THEN "verdict"
                            ELSE "unavailable_notice"

\* C5 happens: the sector analyzer answered first, the correlation analyzer
\* after it, both in budget, and the report is out.
C5_Witness ==
    \E r \in Requests :
        /\ Reports(r) # <<>>
        /\ Len(arrivals[r]) = 2
        /\ arrivals[r][1] = <<"sect", "in_budget">>
        /\ arrivals[r][2] = <<"corr", "in_budget">>

\* the responses the coordinator held when it formatted the report
HeldCorrelation(r) == IF variant = "local" THEN lCorr[r] ELSE corrStore[r]
HeldSector(r) == IF variant = "local" THEN lSect[r] ELSE sectStore[r]

\* C6: with both responses in budget, synthesis is attempted before the
\* report is emitted; synthesis is attempted at most once, and never while
\* either response is absent.
C6_SynthesisIffBoth ==
    \A r \in Requests :
        /\ (Reports(r) # <<>> /\ InBudget(r, "corr") /\ InBudget(r, "sect"))
               => synthLog[r] # <<>>
        /\ Len(synthLog[r]) <= 1
        /\ synthLog[r] # <<>> => HeldCorrelation(r) # None /\ HeldSector(r) # None
        /\ (Reports(r) # <<>> /\ Reports(r)[1].synth # "omitted") => synthLog[r] # <<>>

\* C6 happens: correlation first, sector second, both in budget; synthesis
\* returned and the state Synthesized was entered before Reported.
C6_Witness ==
    \E r \in Requests :
        /\ arrivals[r] = <<(<<"corr", "in_budget">>), (<<"sect", "in_budget">>)>>
        /\ synthLog[r] = <<"verdict">>
        /\ Len(trace[r]) = 5 /\ trace[r][4] = "Synthesized" /\ trace[r][5] = "Reported"

C8_SynthesisFailureDegrades ==
    \A r \in Requests :
        (synthLog[r] # <<>> /\ synthLog[r][1] = "raised") =>
            /\ Len(outbox[r]) = 1
            /\ Len(Reports(r)) = 1
            /\ Reports(r)[1].corr = "verbatim"
            /\ Reports(r)[1].sect = "verbatim"
            /\ Reports(r)[1].synth = "unavailable_notice"

\* C9: each wait for an analyzer lasts at most AGENT_RESPONSE_TIMEOUT, and the
\* time a request has waited when its report is emitted is at most
\* 2 x AGENT_RESPONSE_TIMEOUT.
C9_WaitingBounded ==
    \A r \in Requests :
        /\ \A i \in 1..Len(waits[r]) : waits[r][i][2] <= AGENT_RESPONSE_TIMEOUT
        /\ \A i \in 1..Len(Reports(r)) :
               Reports(r)[i].elapsed <= 2 * AGENT_RESPONSE_TIMEOUT

\* the place of a coordinator state in the order of the design
Rank(st) ==
    CASE st = "Dispatched" -> 1
      [] st = "AwaitingBoth" -> 2
      [] st \in {"BothArrived", "TimedOut"} -> 3
      [] st = "Synthesized" -> 4
      [] st = "Reported" -> 5

StateOrderKept(t) ==
    /\ \A i \in 1..(Len(t) - 1) : Rank(t[i]) < Rank(t[i + 1])
    /\ Len(t) >= 1 => t[1] = "Dispatched"
    /\ Len(t) >= 2 => t[2] = "AwaitingBoth"
    /\ \A i \in 2..Len(t) : t[i] = "Synthesized" => t[i - 1] = "BothArrived"
    /\ \A i \in 2..Len(t) : t[i] = "Reported" => t[i - 1] \in {"Synthesized", "TimedOut"}

\* C10: a request passes through Dispatched, AwaitingBoth, BothArrived or
\* TimedOut, Synthesized (only after BothArrived), Reported, in this order and
\* each at most once; once Reported, no state is entered again.
C10_StateOrder ==
    /\ [](\A r \in Requests : StateOrderKept(trace[r]))
    /\ [][\A r \in Requests :
            (Len(trace[r]) > 0 /\ trace[r][Len(trace[r])] = "Reported")
                => trace'[r] = trace[r]]_vars

\* C10 happens: a request went the whole way to Reported through Synthesized,
\* and a response handler ran after that.
C10_Witness ==
    \E r \in Requests :
        /\ trace[r] = <<"Dispatched", "AwaitingBoth", "BothArrived", "Synthesized", "Reported">>
        /\ storedAfterReport[r]

\* the message shows the user that analyzer `role` failed with error_type e
ExplainsFailure(m, role, e) ==
    \/ m.kind = "error" /\ m.error_type = e
    \/ m.kind = "report" /\ m[role] = e

\* C11: when an analyzer failed the request with invalid_data or
\* insufficient_data and gave no analysis, the report the coordinator sends
\* back tells the user of that failure.
C11_AnalyzerFailureExplained ==
    \A r \in Requests : \A role \in {"corr", "sect"} :
        (/\ analyzerErrors[r][role] # None
         /\ ~InBudget(r, role)
         /\ Reports(r) # <<>>
         /\ Reports(r)[1][role] # "verbatim")
        => \E i \in 1..Len(outbox[r]) :
               ExplainsFailure(outbox[r][i], role, analyzerErrors[r][role])

(***************************************************************************)
(* Properties of the synthesis (under SynthesisSpec)                       *)
(***************************************************************************)
SynthesisDone == synthPc = "done"

Pct == corrAnalysis.correlation_percentage
Concentrated == sectAnalysis.concentrated_sectors

\* lists of concentrated sectors: none, one, two
ConcentratedLists ==
    {<<>>} \cup {<<a>> : a \in SectorNames}
           \cup {<<a, b>> : a \in SectorNames, b \in SectorNames}

\* the tier the design gives to a percentage and a list
DesignTier(pct, list) ==
    IF pct > 85 /\ list # <<>> THEN "Critical"
    ELSE IF (pct > 85) # (list # <<>>) THEN "High"
    ELSE IF pct >= 70 \/ list # <<>> THEN "Moderate"
    ELSE "Low"

C13_CompoundingIffBoth ==
    SynthesisDone =>
        /\ synthResult.compounding_risk_detected <=> (Pct > 85 /\ Len(Concentrated) >= 1)
        /\ synthResult.compounding_risk_detected => synthResult.overall_risk_level = "Critical"

\* C13 happens: percentage 95 with one concentrated sector gives Critical and
\* compounding risk.
C13_Witness ==
    /\ SynthesisDone
    /\ Pct = 95 /\ Len(Concentrated) = 1
    /\ synthResult.compounding_risk_detected
    /\ synthResult.overall_risk_level = "Critical"

\* C14: with the sector analysis fixed and a sector concentrated, raising the
\* percentage never turns compounding risk off: detected at a percentage, it
\* is detected at every higher one; and it is off up to 85 and on above.
C14_CompoundingMonotonic ==
    Len(Concentrated) > 0 =>
        /\ \A p1 \in 0..100 : \A p2 \in p1..100 :
               detect_compounding_risk([correlation_percentage |-> p1], sectAnalysis)
                   => detect_compounding_risk([correlation_percentage |-> p2], sectAnalysis)
        /\ ~detect_compounding_risk([correlation_percentage |-> 85], sectAnalysis)
        /\ detect_compounding_risk([correlation_percentage |-> 86], sectAnalysis)

\* C14 happens: synthesis of a concentrated portfolio just past 85 detected
\* compounding risk.
C14_Witness ==
    /\ SynthesisDone
    /\ Len(Concentrated) > 0 /\ Pct = 86
    /\ synthResult.compounding_risk_detected

Priorities(recs) == [i \in 1..Len(recs) |-> recs[i].priority]
Kinds(recs) == [i \in 1..Len(recs) |-> recs[i].kind]

\* C15: with compounding risk the synthesis carries exactly 3
\* recommendations, priorities 1, 2, 3: sector reduction, correlation
\* reduction, prioritisation; in the Low tier it carries exactly 1.
C15_RecommendationCount ==
    SynthesisDone =>
        /\ synthResult.compounding_risk_detected =>
               /\ Priorities(synthResult.recommendations) = <<1, 2, 3>>
               /\ Kinds(synthResult.recommendations) = <<"sector", "correlation", "prioritization">>
        /\ synthResult.overall_risk_level = "Low" =>
               Len(synthResult.recommendations) = 1

\* C15 happens: a synthesis with compounding risk and its three
\* recommendations.
C15_Witness ==
    /\ SynthesisDone
    /\ synthResult.compounding_risk_detected
    /\ Len(synthResult.recommendations) = 3

\* C16: when exactly one of the two dimensions is high (tier High), exactly
\* one recommendation is generated, for that dimension: correlation reduction
\* when only the percentage is above 85, reduction of the concentrated sector
\* when only a sector is concentrated.
C16_HighSingleDimension ==
    SynthesisDone =>
        /\ (Pct > 85 /\ Concentrated = <<>>) =>
               /\ synthResult.overall_risk_level = "High"
               /\ Kinds(synthResult.recommendations) = <<"correlation">>
        /\ (Pct <= 85 /\ Concentrated # <<>>) =>
               /\ synthResult.overall_risk_level = "High"
               /\ Kinds(synthResult.recommendations) = <<"sector">>
               /\ synthResult.recommendations[1].subject = Concentrated[1]

\* C16 happens: High by sector concentration alone, with a low percentage.
C16_Witness ==
    /\ SynthesisDone
    /\ Pct < 70 /\ Concentrated # <<>>
    /\ synthResult.overall_risk_level = "High"
    /\ Len(synthResult.recommendations) = 1

HasKind(recs, kind) == \E i \in 1..Len(recs) : recs[i].kind = kind

\* C17: in the Moderate tier there is a correlation recommendation exactly
\* when the percentage is >= 70 and a sector recommendation exactly when some
\* sector exceeds 40%, so a portfolio above both thresholds gets both.
C17_ModerateRecommendations ==
    (SynthesisDone /\ synthResult.overall_risk_level = "Moderate") =>
        /\ Len(synthResult.recommendations) <= 2
        /\ HasKind(synthResult.recommendations, "correlation") <=> Pct >= 70
        /\ HasKind(synthResult.recommendations, "sector")
               <=> (\E name \in SectorNames : sectAnalysis.sector_breakdown[name] > 40)

HoldingExcluded(token) ==
    \/ ~anPriceData[token.symbol].exists
    \/ anPriceData[token.symbol].returns < MIN_REQUIRED_DATA_DAYS

RECURSIVE ExcludedValueOf(_)
ExcludedValueOf(tokens) ==
    IF tokens = <<>> THEN 0
    ELSE (IF HoldingExcluded(Head(tokens)) THEN Head(tokens).value_usd ELSE 0)
         + ExcludedValueOf(Tail(tokens))

ExcludedValue == ExcludedValueOf(anPortfolio)

TotalValue == anTotalValue

Survivors == SelectSeq(anPortfolio, LAMBDA token : ~HoldingExcluded(token))

SurvivorReturns == [i \in 1..Len(Survivors) |-> anPriceData[Survivors[i].symbol].returns]

\* the holdings that stay, and the reference series, share enough dates
EnoughOverlappingData ==
    /\ Survivors # <<>>
    /\ all_dates(SurvivorReturns, anAligned) >= MIN_REQUIRED_DATA_DAYS
    /\ anPriceData["ETH"].exists
    /\ anPriceData["ETH"].rows >= 90
    /\ anPriceData["ETH"].returns >= MIN_REQUIRED_DATA_DAYS

AnalyzerDone == anPc = "done"

FailedInsufficientData ==
    anOutcome.kind = "error" /\ anOutcome.error_type = "insufficient_data"

\* C19: the correlation analysis fails with InsufficientData whenever the
\* excluded share of the portfolio value is strictly above the maximum
\* excluded ratio, and succeeds when the share is exactly the maximum and the
\* holdings that stay have enough overlapping data.
C19_ExclusionBoundary ==
    AnalyzerDone =>
        /\ ExcludedValue * 100 > MAX_EXCLUDED_VALUE_RATIO * TotalValue
               => FailedInsufficientData
        /\ (ExcludedValue * 100 = MAX_EXCLUDED_VALUE_RATIO * TotalValue
                /\ EnoughOverlappingData)
               => anOutcome.kind = "analysis"

\* C20: for every coefficient r in [-1, 1] the reported correlation
\* percentage is |r| x 100 rounded to the nearest integer (no integer is
\* nearer to |r| x 100 than the percentage), and it lies in 0..100.
C20_RoundedPercentage ==
    (AnalyzerDone /\ anOutcome.kind = "analysis") =>
        /\ anOutcome.correlation_percentage \in 0..100
        /\ 2 * Abs(anOutcome.correlation_percentage * 1000
                   - Abs(anOutcome.correlation_coefficient) * 100) <= 1000


SomeHoldingExcluded == \E i \in 1..Len(anPortfolio) : HoldingExcluded(anPortfolio[i])

\* C30: a holding whose price series is missing or gives fewer than the
\* minimum number of returns is left out and the analysis goes on with the
\* other holdings: when the excluded share is within the maximum ratio and the
\* holdings that stay have enough overlapping data, the analysis succeeds.
C30_ExcludedNotFailed ==
    (AnalyzerDone /\ SomeHoldingExcluded
        /\ ExcludedValue * 100 <= MAX_EXCLUDED_VALUE_RATIO * TotalValue
        /\ EnoughOverlappingData)
        => anOutcome.kind = "analysis"


SectorDone == sePc = "done"

SectorAnalysed == SectorDone /\ seOutcome.kind = "analysis"

HoldingsSum == sum_value_usd(sePortfolioData.tokens)

\* the stated total is within 0.01 USD of the sum of the holdings
TotalMatchesHoldings == Abs(sePortfolioData.total_value_usd - HoldingsSum) <= 1

\* the analyzer builds a Portfolio from the request: the local one does, the
\* hosted one reads the dict
PortfolioConstructed == seDeployment = "local"

\* C21: every constructed portfolio has its total within 0.01 of the sum of
\* its holdings: a request whose portfolio breaks this is answered with an
\* invalid-data error, and no analysis runs on such a portfolio.
C21_TotalMatchesOrRejected ==
    SectorDone =>
        /\ seOutcome.kind = "analysis" => TotalMatchesHoldings
        /\ (PortfolioConstructed /\ ~TotalMatchesHoldings) =>
               seOutcome.kind = "error" /\ seOutcome.error_type = "invalid_data"

RECURSIVE SumOfNumerators(_)
SumOfNumerators(sector_breakdown) ==
    IF sector_breakdown = <<>> THEN 0
    ELSE Head(sector_breakdown).percentage.num + SumOfNumerators(Tail(sector_breakdown))

\* C22: the percentages of all sectors of the breakdown, "Unknown Sector"
\* included, sum to 100% up to rounding (within a tenth of a percentage
\* point): |sum of value x 100 - 100 x total| x 10 <= total.
C22_PercentagesSumTo100 ==
    SectorAnalysed =>
        Abs(SumOfNumerators(seOutcome.sector_breakdown)
            - 100 * sePortfolioData.total_value_usd) * 10
        <= sePortfolioData.total_value_usd

Flagged(sector_name) ==
    \E i \in 1..Len(seOutcome.concentrated_sectors) :
        seOutcome.concentrated_sectors[i] = sector_name

\* C23: a sector is flagged concentrated iff its percentage is strictly
\* above the threshold of 60: not at exactly 60, and always above it.
C23_ConcentratedIffAbove ==
    SectorAnalysed =>
        \A i \in 1..Len(seOutcome.sector_breakdown) :
            LET data == seOutcome.sector_breakdown[i]
            IN  Flagged(data.sector_name)
                    <=> data.value_usd * 100 > 60 * sePortfolioData.total_value_usd

\* C23 happens: a sector at exactly 60% that is not flagged, in an analysis
\* that flags no sector
C23_Witness ==
    /\ SectorAnalysed
    /\ \E i \in 1..Len(seOutcome.sector_breakdown) :
           /\ seOutcome.sector_breakdown[i].value_usd * 100
                  = 60 * sePortfolioData.total_value_usd
           /\ ~Flagged(seOutcome.sector_breakdown[i].sector_name)

TenthsOf(percentage) ==
    (percentage.num \div percentage.den) * 10
    + ((percentage.num % percentage.den) * 10) \div percentage.den

\* C25: for the portfolio UNI 32100, AAVE 23575, COMP 23760, MKR 18966,
\* MATIC 9360 with total 107761 the sector analysis puts "DeFi Governance" at
\* about 91.3%, flags it concentrated and scores the portfolio
\* "High Concentration".
C25_HighConcentrationScenario ==
    (SectorDone /\ sePortfolioData = high_concentration_portfolio /\ seMappings) =>
        /\ seOutcome.kind = "analysis"
        /\ \E i \in 1..Len(seOutcome.sector_breakdown) :
               /\ seOutcome.sector_breakdown[i].sector_name = "DeFi Governance"
               /\ TenthsOf(seOutcome.sector_breakdown[i].percentage) \in {912, 913}
        /\ Flagged("DeFi Governance")
        /\ seOutcome.diversification_score = "High Concentration"

UnknownHoldings ==
    {i \in 1..Len(sePortfolioData.tokens) :
        sePortfolioData.tokens[i].symbol \notin DOMAIN SectorMappings}

InBucket(symbol, data) ==
    \E k \in 1..Len(data.token_symbols) : data.token_symbols[k] = symbol

\* the request is one the analyzer can answer, whatever its symbols are
SectorRequestSound ==
    /\ seMappings
    /\ sePortfolioData.total_value_usd > 0
    /\ TotalMatchesHoldings

\* the historical crash data does not make the handler fail by itself
HistoryReadable == seCrashes # "no_crashes"

LastOf(seq, n) == IF Len(seq) > n THEN SubSeq(seq, Len(seq) - n + 1, Len(seq)) ELSE seq

\* the message handlers of session s
HandlesMessageOf(s) ==
    \/ start_wallet_analysis(s)
    \/ record_report(s)
    \/ \E kind \in {"unclear", "followup"} : ask_question(s, kind)
    \/ resume_question(s)
    \/ end_session(s)

\* a read for session s returns nothing or a state created for s
ReadsOwnState(s) ==
    /\ get_conversation_state(s).session \in {0, s}
    /\ cvSuspended[s].state.session \in {0, s}

\* what a read for session t returns, and the content of that state, stay
\* as they are
StateUntouched(t) ==
    /\ get_conversation_state(t)' = get_conversation_state(t)
    /\ cvDicts'[t] = cvDicts[t]

\* the state session s has now was made after its last session end
MadeAfterEnd(s) ==
    get_conversation_state(s) # NoRef => get_conversation_state(s).gen > cvTornDown[s]

\* C27: the conversation history of a session never holds more than 10
\* entries, and the entries it holds are exactly the most recently appended
\* exchanges, in the order in which they were appended.
C27_HistoryIsLastTen ==
    \A s \in ChatSessions, g \in Generations :
        /\ Len(cvDicts[s][g].conversation_history) <= MAX_HISTORY
        /\ cvDicts[s][g].conversation_history = LastOf(cvAppended[s][g], MAX_HISTORY)

\* more than 10 exchanges were appended to the state a session has stored
C27_Witness ==
    \E s \in ChatSessions :
        /\ get_conversation_state(s) # NoRef
        /\ Len(cvAppended[s][get_conversation_state(s).gen]) > MAX_HISTORY
        /\ Len(deref(get_conversation_state(s)).conversation_history) = MAX_HISTORY

\* C28: sessions are isolated under every interleaving of their handlers: a
\* read for a session never returns a state stored for another session, and
\* handling a message of one session leaves the state of every other
\* session as it was.
C28_SessionsIsolated ==
    /\ [](\A s \in ChatSessions : ReadsOwnState(s))
    /\ [][\A s \in ChatSessions : HandlesMessageOf(s) =>
             \A t \in ChatSessions \ {s} : StateUntouched(t)]_vars

\* both sessions have a state with exchanges in it while a handler of
\* session 1 is suspended
C28_Witness ==
    /\ \A s \in ChatSessions :
          /\ get_conversation_state(s) # NoRef
          /\ get_conversation_state(s).session = s
          /\ deref(get_conversation_state(s)).conversation_history # <<>>
    /\ cvSuspended[1].active
    /\ cvSuspended[1].state # NoRef

\* C29: once a session end has been processed the state of the session is
\* gone: a read returns nothing until a new state is created for the
\* session, and no later question of the session is answered from analyses
\* that were stored before the end.
C29_TornDownAtSessionEnd ==
    \A s \in ChatSessions :
        /\ cvEnded[s] > 0 => MadeAfterEnd(s)
        /\ ~cvStale[s]


\* C31: when no holding is left after the exclusions, the correlation
\* analysis fails with InsufficientData: the analyzer answers with an
\* ErrorMessage whose error type is insufficient_data.
C31_NoHoldingLeftInsufficient ==
    (AnalyzerDone /\ Survivors = <<>>) => FailedInsufficientData


\* C32: computing the returns of a price series of fewer than 2 prices fails
\* with a data error: no result, and in particular no empty return series,
\* comes out of such a series.
C32_ShortSeriesFails ==
    (drPc = "done" /\ Len(drPrices) < 2) => drOutcome.raised


\* C33: when compounding risk is detected and the query of the historical
\* dual-risk crashes fails, synthesis still returns its result, and the
\* warning of that result carries a generic example.
C33_QueryFailureGenericExample ==
    (synthPc = "done" /\ synthResult.compounding_risk_detected /\ crashQuery = "raises") =>
        /\ synthNarrative.returned
        /\ synthNarrative.crash_example = "2022 Bear Market"


\* the historical data the analysis of a concentrated sector looks for is
\* missing: no file, no crash scenario in the file, or a scenario without an
\* entry for the sector
HistoricalDataMissing == seCrashes \in {"absent", "no_crashes", "no_scenario", "no_sector"}

\* C34: when the historical sector-crash data is missing (the file is absent,
\* the crash scenario is absent, or the scenario has no entry for the
\* concentrated sector) the sector analysis still succeeds, with an empty
\* list of sector risks: missing historical data gives no error response.
C34_MissingHistoryNoError ==
    (SectorDone /\ SectorRequestSound /\ HistoricalDataMissing) =>
        /\ seOutcome.kind = "analysis"
        /\ seRisks = <<>>


\* the analysis results kept in a state dict
AnalysesOf(ref) ==
    <<deref(ref).correlation_analysis, deref(ref).sector_analysis, deref(ref).synthesis>>

\* the handler of a follow-up question of s that its stored analyses can
\* answer: the step that answers it, and the step that records the exchange
AnswersFollowUp(s) ==
    \/ ask_question(s, "followup")
    \/ resume_question(s) /\ cvSuspended[s].kind = "followup"

\* the state the handler of s works on
FollowUpState(s) ==
    IF cvSuspended[s].active THEN cvSuspended[s].state ELSE get_conversation_state(s)

\* C35: a follow-up question that the stored analyses of the session can
\* answer is answered from the stored state alone: no analysis request is
\* dispatched for it, and the stored analysis results stay as they are.
C35_FollowUpFromStoredState ==
    [][\A s \in ChatSessions : AnswersFollowUp(s) =>
          /\ cvInFlight' = cvInFlight
          /\ cvAnalysed' = cvAnalysed
          /\ AnalysesOf(FollowUpState(s))' = AnalysesOf(FollowUpState(s))
          /\ \A t \in ChatSessions, g \in Generations :
                 AnalysesOf([session |-> t, gen |-> g])' = AnalysesOf([session |-> t, gen |-> g])]_vars

\* a follow-up question was answered from the stored analyses of its session
\* and its handler waits to record the exchange
C35_Witness ==
    \E s \in ChatSessions :
        /\ cvSuspended[s].active
        /\ cvSuspended[s].kind = "followup"
        /\ AnalysesOf(cvSuspended[s].state)[1] # 0
        /\ cvInFlight[s] = 0


\* C36: the answer to a request goes to the party that issued it, and to no
\* one else: every answer sent for a request is addressed to its issuer, and a
\* request whose handling has sent its report (chat, direct agent-to-agent or
\* local) has delivered it to the issuer, also while a request of another
\* sender is in flight.
C36_ReportReachesIssuer ==
    \A r \in DeliveryRequests :
        /\ \A i \in 1..Len(dvDelivered[r]) : dvDelivered[r][i] = dvIssuer[r]
        /\ dvPc[r] = "sent" => dvDelivered[r] = <<dvIssuer[r]>>


\* C37: the report of a request contains only analyzer responses produced for
\* that request: each analysis in it is absent or is the answer to this very
\* request, never a response an earlier request left in storage.
C37_ReportOfOwnResponses ==
    \A k \in Incarnations :
        rsReport[k].built =>
            /\ rsReport[k].correlation \in {NoResponse, k}
            /\ rsReport[k].sector \in {NoResponse, k}


\* C38: what the conversation state of a session holds derives from one
\* analysis request, the most recent one reported: every analysis stored
\* (correlation, sector, synthesis) is of that request, at every point and
\* also after a report in which an analysis or the synthesis was absent, and
\* so is the wallet whenever no newer request is in flight.
C38_StateOfOneRequest ==
    (stState.present /\ stReported # 0) =>
        /\ stState.correlation_analysis \in {0, stReported}
        /\ stState.sector_analysis \in {0, stReported}
        /\ stState.synthesis \in {0, stReported}
        /\ stInFlight = 0 => stState.wallet = stReported


\* C39: the interpretation tier of the correlation analyzer and the
\* high-correlation condition of the synthesis agree: an analysis is labelled
\* High if and only if the percentage it reports is strictly greater than 85.
C39_HighTierIffAbove85 ==
    (AnalyzerDone /\ anOutcome.kind = "analysis") =>
        (anOutcome.interpretation = "High" <=> anOutcome.correlation_percentage > 85)


\* C40: for every valid portfolio (one the Portfolio model accepts) analysed
\* with the default concentration threshold of 60, at most one sector is
\* flagged concentrated, so the diversification tier is Well-Diversified or
\* Moderate Concentration, never High Concentration.
C40_AtMostOneConcentrated ==
    (SectorAnalysed /\ shared_portfolio_constructs(sePortfolioData)) =>
        /\ Len(seOutcome.concentrated_sectors) <= 1
        /\ seOutcome.diversification_score \in {"Well-Diversified", "Moderate Concentration"}

====
